---------------------------- MODULE Spec2Model ----------------------------
(***************************************************************************)
(* A model of the chess engine of pygame-chess: the Chessboard of          *)
(* src/chess/board.py (position, legality, make/unmake, FEN parsing) and   *)
(* the ChessBot of src/chess/bot.py (minimax with alpha-beta pruning).     *)
(***************************************************************************)
EXTENDS Integers, Sequences, FiniteSets, TLC

(***************************************************************************)
(* Piece / Move model (src/chess/const.py, and the Move/MoveFlags          *)
(* constructor calls of src/chess/board.py)                                *)
(***************************************************************************)
White == "White"
Black == "Black"

PieceColours == {White, Black}

Piece(type, colour) == [Type |-> type, Colour |-> colour]

\* Piece.empty()
EmptyPiece == Piece("Empty", "Empty")

KingSide == "KingSide"
QueenSide == "QueenSide"

\* MoveFlags(Castling=None, LoseCastling=None); an absent LoseCastling is the
\* empty set: make_move and unmake_move iterate over it and do nothing.
MoveFlags(castling, lose) == [Castling |-> castling, LoseCastling |-> lose]

NoFlags == MoveFlags("None", {})

\* Move(From, To, Captured, Flags)
Move(from, to, captured, flags) ==
    [From |-> from, To |-> to, Captured |-> captured, Flags |-> flags]

\* The absent move (Python's None where an Optional[Move] is expected)
None == Move(-1, -1, EmptyPiece, NoFlags)

\* SCORES of const.py: the key Move.__lt__ orders moves by
SCORES(type) ==
    CASE type = "Empty" -> 0
      [] type = "Pawn" -> 1
      [] type = "Knight" -> 3
      [] type = "Bishop" -> 3
      [] type = "Rook" -> 5
      [] type = "Queen" -> 9
      [] type = "King" -> 10

Abs(n) == IF n < 0 THEN 0 - n ELSE n

Min2(a, b) == IF a < b THEN a ELSE b

Max2(a, b) == IF a > b THEN a ELSE b

\* int(math.copysign(1, d)): +1 for d >= 0, -1 for d < 0
CopySign(d) == IF d < 0 THEN -1 ELSE 1

\* range(a, b, s) for s in {1, -1}, as the sequence of its values
RangeLen(a, b, s) == IF s = 1 THEN Max2(0, b - a) ELSE Max2(0, a - b)

(***************************************************************************)
(* Chessboard: a record cb with the fields of the object                   *)
(*   board, active_colour, castling_rights, en_passant_target, halfmoves   *)
(***************************************************************************)
NoRights == [White |-> [KingSide |-> FALSE, QueenSide |-> FALSE],
             Black |-> [KingSide |-> FALSE, QueenSide |-> FALSE]]

\* Chessboard.__init__
NewBoard == [board |-> [i \in 0..63 |-> EmptyPiece],
             active_colour |-> White,
             castling_rights |-> NoRights,
             en_passant_target |-> -1,
             halfmoves |-> 0]

\* self._board[i] with Python's indexing: a negative index counts from the end
BoardAt(b, i) == IF i < 0 THEN b[i + 64] ELSE b[i]

BoardSet(b, i, p) == [b EXCEPT ![IF i < 0 THEN i + 64 ELSE i] = p]

\* Chessboard.at
at(cb, x, y) ==
    IF 0 <= x /\ x <= 7 /\ 0 <= y /\ y <= 7 THEN cb.board[x + y * 8]
    ELSE EmptyPiece

_diagonal_is_free(cb, x1, y1, x2, y2) ==
    LET signX == CopySign(x2 - x1)
        signY == CopySign(y2 - y1)
        n == Min2(RangeLen(x1 + signX, x2, signX), RangeLen(y1 + signY, y2, signY))
    IN \A k \in 1..n :
          cb.board[(y1 + k * signY) * 8 + (x1 + k * signX)].Type = "Empty"

_horizontal_is_free(cb, x1, y1, x2, y2) ==
    LET sign == CopySign(x2 - x1)
    IN \A k \in 1..RangeLen(x1 + sign, x2, sign) :
          cb.board[y1 * 8 + (x1 + k * sign)].Type = "Empty"

_vertical_is_free(cb, x1, y1, x2, y2) ==
    LET sign == CopySign(y2 - y1)
    IN \A k \in 1..RangeLen(y1 + sign, y2, sign) :
          cb.board[(y1 + k * sign) * 8 + x1].Type = "Empty"

_can_pawn_make(cb, x1, y1, x2, y2) ==
    LET direction == IF cb.board[y1 * 8 + x1].Colour = White THEN -1 ELSE 1
        to_capture == cb.board[y2 * 8 + x2].Type # "Empty"
        dx == Abs(x2 - x1)
    IN IF y2 - y1 = direction /\
          ((dx = 1 /\ to_capture) \/ (dx = 0 /\ ~to_capture))
       THEN TRUE
       ELSE ~to_capture /\ (y1 = 1 \/ y1 = 6) /\
            y2 - y1 = direction * 2 /\ dx = 0

_can_knight_make(x1, y1, x2, y2) ==
    LET dx == Abs(x2 - x1)
        dy == Abs(y2 - y1)
    IN (dx = 1 /\ dy = 2) \/ (dx = 2 /\ dy = 1)

_can_bishop_make(cb, x1, y1, x2, y2) ==
    Abs(x1 - x2) = Abs(y1 - y2) /\ _diagonal_is_free(cb, x1, y1, x2, y2)

_can_rook_make(cb, x1, y1, x2, y2) ==
    IF y1 = y2 THEN _horizontal_is_free(cb, x1, y1, x2, y2)
    ELSE IF x1 = x2 THEN _vertical_is_free(cb, x1, y1, x2, y2)
    ELSE FALSE

_can_queen_make(cb, x1, y1, x2, y2) ==
    _can_bishop_make(cb, x1, y1, x2, y2) \/ _can_rook_make(cb, x1, y1, x2, y2)

_can_king_make(x1, y1, x2, y2) ==
    (Abs(x2 - x1) < 2 /\ Abs(y2 - y1) < 2) \/
    (Abs(x1 - x2) = 2 /\ y1 = y2)

\* self._get_validator[type](x1, y1, x2, y2)
_get_validator(cb, type, x1, y1, x2, y2) ==
    CASE type = "Pawn" -> _can_pawn_make(cb, x1, y1, x2, y2)
      [] type = "Knight" -> _can_knight_make(x1, y1, x2, y2)
      [] type = "Bishop" -> _can_bishop_make(cb, x1, y1, x2, y2)
      [] type = "Rook" -> _can_rook_make(cb, x1, y1, x2, y2)
      [] type = "Queen" -> _can_queen_make(cb, x1, y1, x2, y2)
      [] type = "King" -> _can_king_make(x1, y1, x2, y2)

\* _force_castling without the test of the castling right (a variant that
\* CastlingGated must tell apart from the code)
_force_castling_ignores_rights(cb, move) ==
    LET rights == cb.castling_rights[cb.board[move.From].Colour]
        castling == IF (move.From % 8) - (move.To % 8) = 2 THEN QueenSide ELSE KingSide
        other_side == IF castling = QueenSide THEN KingSide ELSE QueenSide
    IN IF castling = QueenSide /\
          (BoardAt(cb.board, move.To - 1) # EmptyPiece \/
           BoardAt(cb.board, move.From - 1) # EmptyPiece \/
           BoardAt(cb.board, move.From - 2) # EmptyPiece)
       THEN None
       ELSE IF castling = KingSide /\
               (BoardAt(cb.board, move.From + 1) # EmptyPiece \/
                BoardAt(cb.board, move.From + 2) # EmptyPiece)
       THEN None
       ELSE Move(move.From, move.To, move.Captured,
                 MoveFlags(castling,
                           {castling} \cup
                           (IF rights[other_side] THEN {other_side} ELSE {})))

\* The castling branch of _force_can_make (a king moving two files along its
\* rank onto an empty square): the flagged move, or None when it is rejected
_force_castling(cb, move) ==
    LET rights == cb.castling_rights[cb.board[move.From].Colour]
        castling == IF (move.From % 8) - (move.To % 8) = 2 THEN QueenSide ELSE KingSide
        other_side == IF castling = QueenSide THEN KingSide ELSE QueenSide
    IN IF castling = QueenSide /\
          (BoardAt(cb.board, move.To - 1) # EmptyPiece \/
           BoardAt(cb.board, move.From - 1) # EmptyPiece \/
           BoardAt(cb.board, move.From - 2) # EmptyPiece)
       THEN None
       ELSE IF castling = KingSide /\
               (BoardAt(cb.board, move.From + 1) # EmptyPiece \/
                BoardAt(cb.board, move.From + 2) # EmptyPiece)
       THEN None
       ELSE IF rights[castling]
       THEN Move(move.From, move.To, move.Captured,
                 MoveFlags(castling,
                           {castling} \cup
                           (IF rights[other_side] THEN {other_side} ELSE {})))
       ELSE None

\* _force_flags where a king's move other than castling forfeits nothing (a
\* variant that RightsLostForGood must tell apart from the code)
_force_flags_keeps_rights(cb, move) ==
    LET this_piece == cb.board[move.From]
        rights == cb.castling_rights[this_piece.Colour]
        y1 == move.From \div 8
        y2 == move.To \div 8
        x1 == move.From % 8
        x2 == move.To % 8
    IN IF this_piece.Type = "King" /\ y1 = y2 /\ Abs(x1 - x2) = 2
          /\ move.Captured = EmptyPiece
       THEN _force_castling(cb, move)
       ELSE IF this_piece.Type = "Rook"
       THEN IF x1 = 0 /\ rights[QueenSide]
            THEN Move(move.From, move.To, move.Captured,
                      MoveFlags("None", {QueenSide}))
            ELSE IF x1 = 7 /\ rights[KingSide]
            THEN Move(move.From, move.To, move.Captured,
                      MoveFlags("None", {KingSide}))
            ELSE move
       ELSE move

\* The flag computation of _force_can_make (castling, king and rook branches);
\* None when the castling branch rejects the move
_force_flags(cb, move) ==
    LET this_piece == cb.board[move.From]
        rights == cb.castling_rights[this_piece.Colour]
        y1 == move.From \div 8
        y2 == move.To \div 8
        x1 == move.From % 8
        x2 == move.To % 8
    IN IF this_piece.Type = "King" /\ y1 = y2 /\ Abs(x1 - x2) = 2
          /\ move.Captured = EmptyPiece
       THEN _force_castling(cb, move)
       ELSE IF this_piece.Type = "King"
       THEN Move(move.From, move.To, move.Captured,
                 MoveFlags("None",
                           (IF rights[KingSide] THEN {KingSide} ELSE {}) \cup
                           (IF rights[QueenSide] THEN {QueenSide} ELSE {})))
       ELSE IF this_piece.Type = "Rook"
       THEN IF x1 = 0 /\ rights[QueenSide]
            THEN Move(move.From, move.To, move.Captured,
                      MoveFlags("None", {QueenSide}))
            ELSE IF x1 = 7 /\ rights[KingSide]
            THEN Move(move.From, move.To, move.Captured,
                      MoveFlags("None", {KingSide}))
            ELSE move
       ELSE move

\* Chessboard._force_can_make
_force_can_make(cb, move) ==
    LET this_piece == cb.board[move.From]
        other_piece == cb.board[move.To]
    IN IF move.Captured # other_piece THEN None
       ELSE IF this_piece.Type = "Empty" THEN None
       ELSE IF other_piece.Type # "Empty" /\ other_piece.Colour = this_piece.Colour
       THEN None
       ELSE LET flagged == _force_flags(cb, move)
            IN IF flagged = None THEN None
               ELSE IF _get_validator(cb, this_piece.Type,
                                      move.From % 8, move.From \div 8,
                                      move.To % 8, move.To \div 8)
               THEN flagged
               ELSE None

\* make_move without clearing the source square (a variant that OneKingEach
\* must tell apart from the code)
make_move_keeps_source(cb, move) ==
    LET this_colour == cb.board[move.From].Colour
        rights == IF move.Flags.LoseCastling = {} THEN cb.castling_rights
                  ELSE [cb.castling_rights EXCEPT ![this_colour] =
                          [KingSide |-> IF KingSide \in move.Flags.LoseCastling
                                        THEN FALSE ELSE @.KingSide,
                           QueenSide |-> IF QueenSide \in move.Flags.LoseCastling
                                         THEN FALSE ELSE @.QueenSide]]
        b2 == [cb.board EXCEPT ![move.To] = cb.board[move.From]]
        b3 == IF move.Flags.Castling = "None" THEN b2
              ELSE IF move.Flags.Castling = KingSide
              THEN BoardSet(BoardSet(b2, move.From + 1, BoardAt(b2, move.To + 1)),
                            move.To + 1, EmptyPiece)
              ELSE BoardSet(BoardSet(b2, move.From - 1, BoardAt(b2, move.To - 2)),
                            move.To - 2, EmptyPiece)
    IN [cb EXCEPT !.castling_rights = rights,
                  !.halfmoves = @ + 1,
                  !.board = b3]

\* Chessboard.make_move
make_move(cb, move) ==
    LET this_colour == cb.board[move.From].Colour
        rights == IF move.Flags.LoseCastling = {} THEN cb.castling_rights
                  ELSE [cb.castling_rights EXCEPT ![this_colour] =
                          [KingSide |-> IF KingSide \in move.Flags.LoseCastling
                                        THEN FALSE ELSE @.KingSide,
                           QueenSide |-> IF QueenSide \in move.Flags.LoseCastling
                                         THEN FALSE ELSE @.QueenSide]]
        b1 == [cb.board EXCEPT ![move.To] = cb.board[move.From]]
        b2 == [b1 EXCEPT ![move.From] = EmptyPiece]
        b3 == IF move.Flags.Castling = "None" THEN b2
              ELSE IF move.Flags.Castling = KingSide
              THEN BoardSet(BoardSet(b2, move.From + 1, BoardAt(b2, move.To + 1)),
                            move.To + 1, EmptyPiece)
              ELSE BoardSet(BoardSet(b2, move.From - 1, BoardAt(b2, move.To - 2)),
                            move.To - 2, EmptyPiece)
    IN [cb EXCEPT !.castling_rights = rights,
                  !.halfmoves = @ + 1,
                  !.board = b3]

\* unmake_move without putting the captured piece back (a variant that
\* MakeUnmakeRestores must tell apart from the code)
unmake_move_forgets_capture(cb, move) ==
    LET this_colour == cb.board[move.To].Colour
        rights == IF move.Flags.LoseCastling = {} THEN cb.castling_rights
                  ELSE [cb.castling_rights EXCEPT ![this_colour] =
                          [KingSide |-> IF KingSide \in move.Flags.LoseCastling
                                        THEN TRUE ELSE @.KingSide,
                           QueenSide |-> IF QueenSide \in move.Flags.LoseCastling
                                         THEN TRUE ELSE @.QueenSide]]
        b1 == [cb.board EXCEPT ![move.From] = cb.board[move.To]]
        b2 == [b1 EXCEPT ![move.To] = EmptyPiece]
        b3 == IF move.Flags.Castling = "None" THEN b2
              ELSE IF move.Flags.Castling = KingSide
              THEN BoardSet(BoardSet(b2, move.To + 1, BoardAt(b2, move.From + 1)),
                            move.From + 1, EmptyPiece)
              ELSE BoardSet(BoardSet(b2, move.To - 2, BoardAt(b2, move.From - 1)),
                            move.From - 1, EmptyPiece)
    IN [cb EXCEPT !.castling_rights = rights,
                  !.halfmoves = @ - 1,
                  !.board = b3]

\* Chessboard.unmake_move
unmake_move(cb, move) ==
    LET this_colour == cb.board[move.To].Colour
        rights == IF move.Flags.LoseCastling = {} THEN cb.castling_rights
                  ELSE [cb.castling_rights EXCEPT ![this_colour] =
                          [KingSide |-> IF KingSide \in move.Flags.LoseCastling
                                        THEN TRUE ELSE @.KingSide,
                           QueenSide |-> IF QueenSide \in move.Flags.LoseCastling
                                         THEN TRUE ELSE @.QueenSide]]
        b1 == [cb.board EXCEPT ![move.From] = cb.board[move.To]]
        b2 == [b1 EXCEPT ![move.To] = move.Captured]
        b3 == IF move.Flags.Castling = "None" THEN b2
              ELSE IF move.Flags.Castling = KingSide
              THEN BoardSet(BoardSet(b2, move.To + 1, BoardAt(b2, move.From + 1)),
                            move.From + 1, EmptyPiece)
              ELSE BoardSet(BoardSet(b2, move.To - 2, BoardAt(b2, move.From - 1)),
                            move.From - 1, EmptyPiece)
    IN [cb EXCEPT !.castling_rights = rights,
                  !.halfmoves = @ - 1,
                  !.board = b3]

\* np.where(self._board == piece)[0][0]: the lowest index holding the piece
IndexOf(b, piece) ==
    CHOOSE i \in 0..63 : b[i] = piece /\ \A j \in 0..(i - 1) : b[j] # piece

\* _line and _diagonal of _king_is_safe: walk from (x, y) by (dx, dy) while on
\* the board; the first occupied square decides
RECURSIVE RayHit(_, _, _, _, _, _)
RayHit(cb, x, y, dx, dy, attackers) ==
    IF x < 0 \/ x > 7 \/ y < 0 \/ y > 7 THEN FALSE
    ELSE LET attacking_piece == at(cb, x, y)
         IN IF attacking_piece.Type # "Empty"
            THEN attacking_piece \in attackers
            ELSE RayHit(cb, x + dx, y + dy, dx, dy, attackers)

\* The rook, queen, bishop, pawn and knight tests of _king_is_safe: TRUE when
\* one of them returns False
_king_is_attacked(cb, colour) ==
    LET king_pos == IndexOf(cb.board, Piece("King", colour))
        king_x == king_pos % 8
        king_y == king_pos \div 8
        o_colour == IF colour = Black THEN White ELSE Black
        o_pawn == Piece("Pawn", o_colour)
        o_knight == Piece("Knight", o_colour)
        o_bishop == Piece("Bishop", o_colour)
        o_rook == Piece("Rook", o_colour)
        o_queen == Piece("Queen", o_colour)
        sign_ == IF colour = White THEN -1 ELSE 1
    IN IF \E d \in {<<1, 0>>, <<-1, 0>>, <<0, -1>>, <<0, 1>>} :
             RayHit(cb, king_x + d[1], king_y + d[2], d[1], d[2], {o_rook, o_queen})
       THEN TRUE
       ELSE IF \E d \in {<<1, 1>>, <<-1, 1>>, <<1, -1>>, <<-1, -1>>} :
             RayHit(cb, king_x + d[1], king_y + d[2], d[1], d[2], {o_bishop, o_queen})
       THEN TRUE
       ELSE IF at(cb, king_x + 1, king_y + sign_) = o_pawn \/
               at(cb, king_x - 1, king_y + sign_) = o_pawn
       THEN TRUE
       ELSE \E d \in {<<1, 2>>, <<-1, 2>>, <<2, 1>>, <<-2, 1>>,
                      <<1, -2>>, <<-1, -2>>, <<2, -1>>, <<-2, -1>>} :
               at(cb, king_x + d[1], king_y + d[2]) = o_knight

\* Chessboard._king_is_safe
_king_is_safe(cb, colour) ==
    LET king_pos == IndexOf(cb.board, Piece("King", colour))
        o_colour == IF colour = Black THEN White ELSE Black
        opponent_king_pos == IndexOf(cb.board, Piece("King", o_colour))
    IN IF _king_is_attacked(cb, colour) THEN FALSE
       ELSE IF _can_king_make(opponent_king_pos % 8, opponent_king_pos \div 8,
                              king_pos % 8, king_pos \div 8)
       THEN FALSE
       ELSE TRUE

\* _king_is_safe raises IndexError: np.where(...)[0][0] finds no king of the
\* colour, or reaches the king test and finds no king of the other colour
_king_is_safe_raises(cb, colour) ==
    LET o_colour == IF colour = Black THEN White ELSE Black
    IN \/ \A i \in 0..63 : cb.board[i] # Piece("King", colour)
       \/ /\ ~_king_is_attacked(cb, colour)
          /\ \A i \in 0..63 : cb.board[i] # Piece("King", o_colour)

\* A call of can_make that raised IndexError, in place of the move it returns
IndexError == Move(-2, -2, EmptyPiece, NoFlags)

\* can_make without the king-safety test (a variant that KingSafeAfterMoves
\* must tell apart from the code)
can_make_run_unchecked(cb, move) ==
    LET completed_move == _force_can_make(cb, move)
    IN IF completed_move # None /\ cb.board[move.To].Type # "King"
       THEN [ret |-> completed_move, self |-> cb]
       ELSE [ret |-> None, self |-> cb]

\* can_make without the test of the destination for a king (a variant that
\* NoKingCapture must tell apart from the code)
can_make_run_captures_king(cb, move) ==
    LET completed_move == _force_can_make(cb, move)
    IN IF completed_move # None
       THEN LET made == make_move(cb, move)
            IN IF _king_is_safe_raises(made, made.board[move.To].Colour)
               THEN [ret |-> IndexError, self |-> made]
               ELSE [ret |-> IF _king_is_safe(made, made.board[move.To].Colour)
                             THEN completed_move ELSE None,
                     self |-> unmake_move(made, move)]
       ELSE [ret |-> None, self |-> cb]

\* can_make making the flagged move and taking back the move it was given (a
\* variant that CanMakeReadOnly must tell apart from the code)
can_make_run_mixes_moves(cb, move) ==
    LET completed_move == _force_can_make(cb, move)
    IN IF completed_move # None
       THEN IF cb.board[move.To].Type = "King"
            THEN [ret |-> None, self |-> cb]
            ELSE LET made == make_move(cb, completed_move)
                 IN IF _king_is_safe_raises(made, made.board[move.To].Colour)
                    THEN [ret |-> IndexError, self |-> made]
                    ELSE [ret |-> IF _king_is_safe(made, made.board[move.To].Colour)
                                  THEN completed_move ELSE None,
                          self |-> unmake_move(made, move)]
       ELSE [ret |-> None, self |-> cb]

\* Chessboard.can_make, with the board it leaves behind: ret is the returned
\* move (None when rejected), self the object's fields after the call
can_make_run(cb, move) ==
    LET completed_move == _force_can_make(cb, move)
    IN IF completed_move # None
       THEN IF cb.board[move.To].Type = "King"
            THEN [ret |-> None, self |-> cb]
            ELSE LET made == make_move(cb, move)
                 IN IF _king_is_safe_raises(made, made.board[move.To].Colour)
                    THEN [ret |-> IndexError, self |-> made]
                    ELSE [ret |-> IF _king_is_safe(made, made.board[move.To].Colour)
                                  THEN completed_move ELSE None,
                          self |-> unmake_move(made, move)]
       ELSE [ret |-> None, self |-> cb]

can_make(cb, move) == can_make_run(cb, move).ret

\* The inner loop of get_all_moves: the accepted moves from square i, by
\* ascending target square
MovesFrom(cb, i) ==
    LET found == [k \in 1..64 |-> can_make(cb, Move(i, k - 1, cb.board[k - 1], NoFlags))]
    IN SelectSeq(found, LAMBDA move : move # None)

\* The outer loop of get_all_moves with the colour test inverted (a variant
\* that CheckmateFenWhiteMoves must tell apart from the code)
RECURSIVE ScanMovesOtherColour(_, _, _, _)
ScanMovesOtherColour(cb, colour, lo, hi) ==
    IF lo = hi
    THEN IF cb.board[lo].Type = "Empty" \/ cb.board[lo].Colour = colour
         THEN <<>>
         ELSE MovesFrom(cb, lo)
    ELSE ScanMovesOtherColour(cb, colour, lo, (lo + hi) \div 2)
         \o ScanMovesOtherColour(cb, colour, (lo + hi) \div 2 + 1, hi)

\* The outer loop of get_all_moves over the squares lo..hi, in ascending
\* order (the range is halved to keep the evaluation shallow)
RECURSIVE ScanMoves(_, _, _, _)
ScanMoves(cb, colour, lo, hi) ==
    IF lo = hi
    THEN IF cb.board[lo].Type = "Empty" \/ cb.board[lo].Colour # colour
         THEN <<>>
         ELSE MovesFrom(cb, lo)
    ELSE ScanMoves(cb, colour, lo, (lo + hi) \div 2)
         \o ScanMoves(cb, colour, (lo + hi) \div 2 + 1, hi)

\* Chessboard.get_all_moves: the accepted moves in board-scan order
get_all_moves(cb, colour) == ScanMoves(cb, colour, 0, 63)

(***************************************************************************)
(* Chessboard.hash and the table of init_zobrist                           *)
(***************************************************************************)
\* The table entries are ZBits wide (64 in const.py: randint(1, 2**64 - 1))
ZBits == 6

\* The tables init_zobrist can return are drawn from MaxSeed of them
MaxSeed == 3

\* PIECE_INDICES[piece.Type.value | piece.Colour.value]
PIECE_INDICES(piece) ==
    (CASE piece.Type = "Pawn" -> 0
       [] piece.Type = "Knight" -> 2
       [] piece.Type = "Bishop" -> 4
       [] piece.Type = "Rook" -> 6
       [] piece.Type = "Queen" -> 8
       [] piece.Type = "King" -> 10)
    + (IF piece.Colour = White THEN 0 ELSE 1)

\* init_zobrist: 64 rows of 12 values in 1..2^ZBits - 1, one table per seed
init_zobrist(seed) ==
    [i \in 0..63 |->
        [j \in 0..11 |->
            1 + ((seed * (7 * (i * 12 + j) + 3) + i * j + seed * seed)
                 % (2^ZBits - 1))]]

\* a ^ b on non-negative integers
RECURSIVE Xor(_, _)
Xor(a, b) ==
    IF a = 0 THEN b
    ELSE IF b = 0 THEN a
    ELSE ((a + b) % 2) + 2 * Xor(a \div 2, b \div 2)

\* The loop of hash over the squares lo..hi (the range is halved to keep the
\* evaluation shallow; ^ is associative and commutative)
RECURSIVE HashRange(_, _, _, _)
HashRange(b, table, lo, hi) ==
    IF lo = hi
    THEN IF b[lo].Type # "Empty" THEN table[lo][PIECE_INDICES(b[lo])] ELSE 0
    ELSE Xor(HashRange(b, table, lo, (lo + hi) \div 2),
             HashRange(b, table, (lo + hi) \div 2 + 1, hi))

\* hash folding the half-move counter in (a variant that HashOfPlacement
\* must tell apart from the code)
hash_counts_halfmoves(cb, table) ==
    Xor(HashRange(cb.board, table, 0, 63), cb.halfmoves % (2^ZBits))

\* Chessboard.hash, table being self._z_table
hash(cb, table) == HashRange(cb.board, table, 0, 63)

(***************************************************************************)
(* Position-description strings, as sequences of one-character strings     *)
(***************************************************************************)
\* The starting position (src/chess/__main__.py, line 35 and 39):
\*   rnbqkbnr/pppppppp/8/8/8/8/PPPPPPPP/RNBQKBNR w KQkq - 0 1
StartFen ==
    <<"r", "n", "b", "q", "k", "b", "n", "r", "/", "p", "p", "p", "p", "p",
      "p", "p", "p", "/", "8", "/", "8", "/", "8", "/", "8", "/", "P", "P",
      "P", "P", "P", "P", "P", "P", "/", "R", "N", "B", "Q", "K", "B", "N",
      "R", " ", "w", " ", "K", "Q", "k", "q", " ", "-", " ", "0", " ", "1">>

\* The position the source calls Checkmate (src/chess/__main__.py, line 38):
\*   3rkbnr/1p1bp3/1q1p3p/p5p1/3n4/PPR2Q2/5PPP/6K1 w - - 1 2
CheckmateFen ==
    <<"3", "r", "k", "b", "n", "r", "/", "1", "p", "1", "b", "p", "3", "/",
      "1", "q", "1", "p", "3", "p", "/", "p", "5", "p", "1", "/", "3", "n",
      "4", "/", "P", "P", "R", "2", "Q", "2", "/", "5", "P", "P", "P", "/",
      "6", "K", "1", " ", "w", " ", "-", " ", "-", " ", "1", " ", "2">>

\* Kings and rooks at home, every castling right granted:
\*   r3k2r/8/8/8/8/8/8/R3K2R w KQkq - 0 1
CastleFen ==
    <<"r", "3", "k", "2", "r", "/", "8", "/", "8", "/", "8", "/", "8", "/",
      "8", "/", "8", "/", "R", "3", "K", "2", "R", " ", "w", " ", "K", "Q",
      "k", "q", " ", "-", " ", "0", " ", "1">>

\* King and rooks at home, no castling right granted:
\*   4k3/8/8/8/8/8/8/R3K2R w - - 0 1
NoRightsFen ==
    <<"4", "k", "3", "/", "8", "/", "8", "/", "8", "/", "8", "/", "8", "/",
      "8", "/", "R", "3", "K", "2", "R", " ", "w", " ", "-", " ", "-", " ",
      "0", " ", "1">>

\* A bishop pinned on the e-file by a rook:
\*   4r1k1/8/8/8/8/8/4B3/4K3 w - - 0 1
PinFen ==
    <<"4", "r", "1", "k", "1", "/", "8", "/", "8", "/", "8", "/", "8", "/",
      "8", "/", "4", "B", "3", "/", "4", "K", "3", " ", "w", " ", "-", " ",
      "-", " ", "0", " ", "1">>

\* The white king attacked by a knight and a pawn:
\*   4k3/8/8/8/8/3n4/5p2/4K3 w - - 0 1
CheckFen ==
    <<"4", "k", "3", "/", "8", "/", "8", "/", "8", "/", "8", "/", "3", "n",
      "4", "/", "5", "p", "2", "/", "4", "K", "3", " ", "w", " ", "-", " ",
      "-", " ", "0", " ", "1">>

\* A position with an en-passant target:
\*   4k3/8/8/8/4P3/8/8/4K3 b - e3 0 1
EnPassantFen ==
    <<"4", "k", "3", "/", "8", "/", "8", "/", "8", "/", "4", "P", "3", "/",
      "8", "/", "8", "/", "4", "K", "3", " ", "b", " ", "-", " ", "e", "3",
      " ", "0", " ", "1">>

\* Black's only move lets White mate at once:
\*   7k/8/6K1/8/8/8/8/R7 b - - 0 1
CornerFen ==
    <<"7", "k", "/", "8", "/", "6", "K", "1", "/", "8", "/", "8", "/", "8",
      "/", "8", "/", "R", "7", " ", "b", " ", "-", " ", "-", " ", "0", " ",
      "1">>

\* A pawn attacking an undefended knight:
\*   k7/8/8/8/8/2n5/3P4/7K w - - 0 1
HangingFen ==
    <<"k", "7", "/", "8", "/", "8", "/", "8", "/", "8", "/", "2", "n", "5",
      "/", "3", "P", "4", "/", "7", "K", " ", "w", " ", "-", " ", "-", " ",
      "0", " ", "1">>

\* Black to move has no legal move and is not in check:
\*   7k/5Q2/6K1/8/8/8/8/8 b - - 0 1
StalemateFen ==
    <<"7", "k", "/", "5", "Q", "2", "/", "6", "K", "1", "/", "8", "/", "8",
      "/", "8", "/", "8", "/", "8", " ", "b", " ", "-", " ", "-", " ", "0",
      " ", "1">>

\* A bishop attacking the rook White would castle with:
\*   4k3/8/8/8/8/8/6b1/4K2R w K - 0 1
RookTakenFen ==
    <<"4", "k", "3", "/", "8", "/", "8", "/", "8", "/", "8", "/", "8", "/",
      "6", "b", "1", "/", "4", "K", "2", "R", " ", "w", " ", "K", " ", "-",
      " ", "0", " ", "1">>

\* White's queen's rook at home with the right granted, the other rook on a4:
\*   4k3/8/8/8/R7/8/8/R3K3 w Q - 0 1
FileRookFen ==
    <<"4", "k", "3", "/", "8", "/", "8", "/", "8", "/", "R", "7", "/", "8",
      "/", "8", "/", "R", "3", "K", "3", " ", "w", " ", "Q", " ", "-", " ",
      "0", " ", "1">>

\* The kings two files apart on the eighth rank:
\*   5K1k/8/8/8/8/8/8/8 w - - 0 1
OppositionFen ==
    <<"5", "K", "1", "k", "/", "8", "/", "8", "/", "8", "/", "8", "/", "8",
      "/", "8", "/", "8", " ", "w", " ", "-", " ", "-", " ", "0", " ", "1">>

\* Rank 7 describes 7 squares:
\*   rnbqkbnr/ppppppp/8/8/8/8/PPPPPPPP/RNBQKBNR w KQkq - 0 1
ShortRankFen ==
    <<"r", "n", "b", "q", "k", "b", "n", "r", "/", "p", "p", "p", "p", "p",
      "p", "p", "/", "8", "/", "8", "/", "8", "/", "8", "/", "P", "P", "P",
      "P", "P", "P", "P", "P", "/", "R", "N", "B", "Q", "K", "B", "N", "R",
      " ", "w", " ", "K", "Q", "k", "q", " ", "-", " ", "0", " ", "1">>

\* Rank 6 describes 9 squares, rank 2 describes 7: the total is 64:
\*   rnbqkbnr/pppppppp/9/8/8/8/PPPPPPP/RNBQKBNR w KQkq - 0 1
LongRankFen ==
    <<"r", "n", "b", "q", "k", "b", "n", "r", "/", "p", "p", "p", "p", "p",
      "p", "p", "p", "/", "9", "/", "8", "/", "8", "/", "8", "/", "P", "P",
      "P", "P", "P", "P", "P", "/", "R", "N", "B", "Q", "K", "B", "N", "R",
      " ", "w", " ", "K", "Q", "k", "q", " ", "-", " ", "0", " ", "1">>

\* The letter X is no piece:
\*   rnbqkbnr/pppppppp/8/8/8/8/PPPPPPPP/RNBQKBNX w KQkq - 0 1
BadLetterFen ==
    <<"r", "n", "b", "q", "k", "b", "n", "r", "/", "p", "p", "p", "p", "p",
      "p", "p", "p", "/", "8", "/", "8", "/", "8", "/", "8", "/", "P", "P",
      "P", "P", "P", "P", "P", "P", "/", "R", "N", "B", "Q", "K", "B", "N",
      "X", " ", "w", " ", "K", "Q", "k", "q", " ", "-", " ", "0", " ", "1">>

\* The first rank describes 16 squares, in 7 ranks:
\*   rnbqkbnrpppppppp/8/8/8/8/PPPPPPPP/RNBQKBNR w KQkq - 0 1
DoubleRankFen ==
    <<"r", "n", "b", "q", "k", "b", "n", "r", "p", "p", "p", "p", "p", "p",
      "p", "p", "/", "8", "/", "8", "/", "8", "/", "8", "/", "P", "P", "P",
      "P", "P", "P", "P", "P", "/", "R", "N", "B", "Q", "K", "B", "N", "R",
      " ", "w", " ", "K", "Q", "k", "q", " ", "-", " ", "0", " ", "1">>

\* Ranks of 16 and 0 squares: the total is 64:
\*   4k3/88//8/8/8/8/4K3 w - - 0 1
UnevenFen ==
    <<"4", "k", "3", "/", "8", "8", "/", "/", "8", "/", "8", "/", "8", "/",
      "8", "/", "4", "K", "3", " ", "w", " ", "-", " ", "-", " ", "0", " ",
      "1">>

\* Nine ranks: 72 squares:
\*   4k3/8/8/8/8/8/8/4K3/8 w - - 0 1
TooLongFen ==
    <<"4", "k", "3", "/", "8", "/", "8", "/", "8", "/", "8", "/", "8", "/",
      "8", "/", "4", "K", "3", "/", "8", " ", "w", " ", "-", " ", "-", " ",
      "0", " ", "1">>

\* A piece letter after the 64th square:
\*   4k3/8/8/8/8/8/8/4K3/p w - - 0 1
OverflowFen ==
    <<"4", "k", "3", "/", "8", "/", "8", "/", "8", "/", "8", "/", "8", "/",
      "8", "/", "4", "K", "3", "/", "p", " ", "w", " ", "-", " ", "-", " ",
      "0", " ", "1">>

\* Five fields:
\*   4k3/8/8/8/8/8/8/4K3 w - - 0
FiveFieldFen ==
    <<"4", "k", "3", "/", "8", "/", "8", "/", "8", "/", "8", "/", "8", "/",
      "8", "/", "4", "K", "3", " ", "w", " ", "-", " ", "-", " ", "0">>

\* An active colour that is neither w nor b:
\*   4k3/8/8/8/8/8/8/4K3 x - - 0 1
BadSideFen ==
    <<"4", "k", "3", "/", "8", "/", "8", "/", "8", "/", "8", "/", "8", "/",
      "8", "/", "4", "K", "3", " ", "x", " ", "-", " ", "-", " ", "0", " ",
      "1">>

\* A castling letter that is neither k nor q:
\*   4k3/8/8/8/8/8/8/4K3 w KX - 0 1
BadCastlingFen ==
    <<"4", "k", "3", "/", "8", "/", "8", "/", "8", "/", "8", "/", "8", "/",
      "8", "/", "4", "K", "3", " ", "w", " ", "K", "X", " ", "-", " ", "0",
      " ", "1">>

\* An en-passant square off the board:
\*   4k3/8/8/8/8/8/8/4K3 w - e9 0 1
BadEnPassantFen ==
    <<"4", "k", "3", "/", "8", "/", "8", "/", "8", "/", "8", "/", "8", "/",
      "8", "/", "4", "K", "3", " ", "w", " ", "-", " ", "e", "9", " ", "0",
      " ", "1">>

\* A counter that is no number:
\*   4k3/8/8/8/8/8/8/4K3 w - - 0 x
BadClockFen ==
    <<"4", "k", "3", "/", "8", "/", "8", "/", "8", "/", "8", "/", "8", "/",
      "8", "/", "4", "K", "3", " ", "w", " ", "-", " ", "-", " ", "0", " ",
      "x">>

FenInputs ==
    {StartFen,
     StalemateFen,
     RookTakenFen,
     FileRookFen,
     OppositionFen,
     CheckmateFen,
     CastleFen,
     NoRightsFen,
     PinFen,
     CheckFen,
     EnPassantFen,
     CornerFen,
     HangingFen,
     ShortRankFen,
     LongRankFen,
     BadLetterFen,
     DoubleRankFen,
     UnevenFen,
     TooLongFen,
     OverflowFen,
     FiveFieldFen,
     BadSideFen,
     BadCastlingFen,
     BadEnPassantFen,
     BadClockFen}

(***************************************************************************)
(* Chessboard._parse_fen and Chessboard.from_fen                           *)
(***************************************************************************)
DigitChars == <<"0", "1", "2", "3", "4", "5", "6", "7", "8", "9">>

UpperChars == <<"A", "B", "C", "D", "E", "F", "G", "H", "I", "J", "K", "L", "M",
                "N", "O", "P", "Q", "R", "S", "T", "U", "V", "W", "X", "Y", "Z">>

LowerChars == <<"a", "b", "c", "d", "e", "f", "g", "h", "i", "j", "k", "l", "m",
                "n", "o", "p", "q", "r", "s", "t", "u", "v", "w", "x", "y", "z">>

\* str.isdigit, for one character
IsDigit(c) == \E d \in 1..10 : DigitChars[d] = c

\* int(c), for one digit
DigitVal(c) == (CHOOSE d \in 1..10 : DigitChars[d] = c) - 1

\* str.isupper, for one character
IsUpper(c) == \E k \in 1..26 : UpperChars[k] = c

\* str.lower, for one character
Lower(c) ==
    IF IsUpper(c) THEN LowerChars[CHOOSE k \in 1..26 : UpperChars[k] = c] ELSE c

\* ord(c) - 97, for a lowercase letter; -1 for any other character of the inputs
\* (digits, "-", "/" and uppercase letters all have ord(c) < 97)
OrdMinus97(c) ==
    IF \E k \in 1..26 : LowerChars[k] = c
    THEN (CHOOSE k \in 1..26 : LowerChars[k] = c) - 1
    ELSE -1

\* str.isnumeric
IsNumeric(str) == Len(str) > 0 /\ \A k \in 1..Len(str) : IsDigit(str[k])

\* int(str), for a numeric string
RECURSIVE ParseInt(_)
ParseInt(str) ==
    IF Len(str) = 0 THEN 0
    ELSE ParseInt(SubSeq(str, 1, Len(str) - 1)) * 10 + DigitVal(str[Len(str)])

\* str.split(): the maximal runs of non-blank characters
RECURSIVE Split(_)
Split(str) ==
    IF Len(str) = 0 THEN <<>>
    ELSE IF str[1] = " " THEN Split(Tail(str))
    ELSE LET stop == IF \E k \in 1..Len(str) : str[k] = " "
                     THEN (CHOOSE k \in 1..Len(str) :
                              str[k] = " " /\ \A l \in 1..(k - 1) : str[l] # " ")
                     ELSE Len(str) + 1
         IN <<SubSeq(str, 1, stop - 1)>> \o Split(SubSeq(str, stop, Len(str)))

\* fen_dict
FenDict(c) ==
    CASE c = "p" -> "Pawn"
      [] c = "n" -> "Knight"
      [] c = "b" -> "Bishop"
      [] c = "r" -> "Rook"
      [] c = "q" -> "Queen"
      [] c = "k" -> "King"
      [] OTHER -> "Empty"

\* The loop over the piece-placement field: acc is [err, pos, board], err the
\* exception raised ("" for none)
RECURSIVE ParsePlacement(_, _, _)
ParsePlacement(field, k, acc) ==
    IF acc.err # "" \/ k > Len(field) THEN acc
    ELSE LET sym == field[k]
         IN IF sym = "/"
            THEN ParsePlacement(field, k + 1,
                    IF acc.pos % 8 = 0 THEN acc
                    ELSE [acc EXCEPT !.err = "AssertionError"])
            ELSE IF IsDigit(sym)
            THEN ParsePlacement(field, k + 1,
                    IF acc.pos + DigitVal(sym) < 65
                    THEN [acc EXCEPT !.pos = @ + DigitVal(sym)]
                    ELSE [acc EXCEPT !.err = "AssertionError"])
            ELSE IF FenDict(Lower(sym)) = "Empty"
            THEN [acc EXCEPT !.err = "AssertionError"]
            ELSE IF acc.pos > 63
            THEN [acc EXCEPT !.err = "IndexError"]
            ELSE ParsePlacement(field, k + 1,
                    [acc EXCEPT !.board[acc.pos] =
                                    Piece(FenDict(Lower(sym)),
                                          IF IsUpper(sym) THEN White ELSE Black),
                                !.pos = @ + 1])

\* The loop over the castling field: acc is [err, rights]
RECURSIVE ParseCastling(_, _, _)
ParseCastling(field, k, acc) ==
    IF acc.err # "" \/ k > Len(field) THEN acc
    ELSE LET castling == field[k]
             colour == IF IsUpper(castling) THEN White ELSE Black
         IN IF Lower(castling) = "q"
            THEN ParseCastling(field, k + 1,
                               [acc EXCEPT !.rights[colour][QueenSide] = TRUE])
            ELSE IF Lower(castling) = "k"
            THEN ParseCastling(field, k + 1,
                               [acc EXCEPT !.rights[colour][KingSide] = TRUE])
            ELSE [acc EXCEPT !.err = "AssertionError"]

\* Chessboard._parse_fen: [err, cb], err the exception raised ("" for none) and
\* cb the board returned (tmp_board is dropped when an exception is raised)
_parse_fen(fen_string) ==
    LET fields == Split(fen_string)
        Fail(e) == [err |-> e, cb |-> NewBoard]
    IN IF Len(fields) # 6 THEN Fail("AssertionError")
       ELSE
       LET placed == ParsePlacement(fields[1], 1,
                        [err |-> "", pos |-> 0, board |-> NewBoard.board])
           rights == IF fields[3] = <<"-">> THEN [err |-> "", rights |-> NoRights]
                     ELSE ParseCastling(fields[3], 1,
                                        [err |-> "", rights |-> NoRights])
           alg_cell == fields[4]
       IN IF placed.err # "" THEN Fail(placed.err)
          ELSE IF placed.pos # 64 THEN Fail("AssertionError")
          ELSE IF fields[2] # <<"b">> /\ fields[2] # <<"w">>
          THEN Fail("AssertionError")
          ELSE IF rights.err # "" THEN Fail(rights.err)
          ELSE IF alg_cell # <<"-">> /\
                  ~(Len(alg_cell) = 2
                    /\ 0 <= OrdMinus97(alg_cell[1]) /\ OrdMinus97(alg_cell[1]) < 8
                    /\ IsDigit(alg_cell[2])
                    /\ 0 < DigitVal(alg_cell[2]) /\ DigitVal(alg_cell[2]) < 9)
          THEN Fail("AssertionError")
          ELSE IF ~IsNumeric(fields[5]) THEN Fail("AssertionError")
          ELSE IF ~(IsNumeric(fields[6]) /\ ParseInt(fields[6]) >= 0)
          THEN Fail("AssertionError")
          ELSE [err |-> "",
                cb |-> [board |-> placed.board,
                        active_colour |-> IF fields[2] = <<"b">> THEN Black ELSE White,
                        castling_rights |-> rights.rights,
                        en_passant_target |->
                            IF alg_cell = <<"-">> THEN -1
                            ELSE (8 - DigitVal(alg_cell[2])) * 8
                                 + OrdMinus97(alg_cell[1]),
                        halfmoves |-> ParseInt(fields[6])]]

\* Chessboard.from_fen: an AssertionError is raised again as a ValueError; any
\* other exception passes through
from_fen(fen_string) ==
    LET r == _parse_fen(fen_string)
    IN [r EXCEPT !.err = IF @ = "AssertionError" THEN "ValueError" ELSE @]

(***************************************************************************)
(* ChessBot (src/chess/bot.py): a record bot with the fields of the object *)
(*   colour, random_moves, random_state, count_states                      *)
(***************************************************************************)
\* np.inf and -np.inf: beyond every material balance (at most 16 * 9)
PosInf == 999

NegInf == -999

\* self._random_state = 0.2, in tenths
RandomState == 2

\* ChessBot.__init__
NewBot(colour) == [colour |-> colour,
                   random_moves |-> 0,
                   random_state |-> RandomState,
                   count_states |-> 0]

\* self._opponent_colour
OpponentColour(bot) == IF bot.colour = Black THEN White ELSE Black

\* self._scores, for the kinds _evaluate counts
BotScores(type) ==
    CASE type = "Pawn" -> 1
      [] type = "Knight" -> 3
      [] type = "Bishop" -> 3
      [] type = "Rook" -> 5
      [] type = "Queen" -> 9

\* ChessBot._evaluate: the loop over the squares lo..hi (the range is halved
\* to keep the evaluation shallow)
RECURSIVE EvaluateRange(_, _, _, _)
EvaluateRange(colour, b, lo, hi) ==
    IF lo = hi
    THEN LET piece == b[lo]
             side == IF piece.Colour = colour THEN 1 ELSE -1
         IN IF piece.Type = "Empty" \/ piece.Type = "King" THEN 0
            ELSE side * BotScores(piece.Type)
    ELSE EvaluateRange(colour, b, lo, (lo + hi) \div 2)
         + EvaluateRange(colour, b, (lo + hi) \div 2 + 1, hi)

_evaluate(bot, cb) == EvaluateRange(bot.colour, cb.board, 0, 63)

\* ChessBot._get_ordered_moves: sorted(moves, reverse=True) is stable, and
\* Move.__lt__ compares SCORES of the captured piece only
_get_ordered_moves(cb, colour) ==
    LET moves == get_all_moves(cb, colour)
        Worth(v) == SelectSeq(moves, LAMBDA m : SCORES(m.Captured.Type) = v)
    IN Worth(10) \o Worth(9) \o Worth(5) \o Worth(3) \o Worth(1) \o Worth(0)

\* The outcomes of np.random.exponential(scale=1) < self._random_state: the
\* draw is any real >= 0
Draws(bot) == {FALSE} \cup (IF bot.random_state > 0 THEN {TRUE} ELSE {})

\* The test of _maxi with >= for > (a variant that AlphaBetaIsMinimax must
\* tell apart from the code)
MaxiReplacesOnEqual(bot, score, best) ==
    IF score >= best THEN {TRUE} ELSE {FALSE}

\* The test that updates best_state in _maxi, for each outcome of the draw
MaxiReplaces(bot, score, best) ==
    IF score > best THEN {TRUE}
    ELSE IF score = best THEN Draws(bot)
    ELSE {FALSE}

\* The test that updates best_state in _mini, for each outcome of the draw
MiniReplaces(bot, score, best) ==
    IF score < best THEN {TRUE}
    ELSE IF score = best THEN Draws(bot)
    ELSE {FALSE}

\* The pruning test of _maxi and _mini
Cutoff(alpha, beta) == beta <= alpha

\* _maxi and _mini give the set of their possible outcomes, one per outcome of
\* the draws: [score, move] is the pair returned, cb the board and bot the bot
\* as the call leaves them.  The loops carry, per outcome so far,
\* [best, alpha, beta, cb, bot, stop]; they run over moves[lo..hi] in order
\* (the range is halved to keep the evaluation shallow).
RECURSIVE _maxi(_, _, _, _, _, _)
RECURSIVE _mini(_, _, _, _, _, _)
RECURSIVE MaxiLoop(_, _, _, _, _, _)
RECURSIVE MiniLoop(_, _, _, _, _, _)

\* One iteration of the loop of _maxi
MaxiStep(move, move_, depth, st) ==
    IF st.stop THEN {st}
    ELSE UNION { UNION {
              { [best |-> IF replace THEN [score |-> r.score, move |-> move]
                          ELSE st.best,
                 alpha |-> Max2(st.alpha, r.score),
                 beta |-> st.beta,
                 cb |-> unmake_move(r.cb, move),
                 bot |-> r.bot,
                 stop |-> Cutoff(Max2(st.alpha, r.score), st.beta)]
                : replace \in MaxiReplaces(r.bot, r.score, st.best.score) }
              : r \in _mini(made, counted, move_, st.alpha, st.beta, depth - 1) }
           : made \in {make_move(st.cb, move)},
             counted \in {[st.bot EXCEPT !.count_states = @ + 1]} }

MaxiLoop(moves, lo, hi, move_, depth, sts) ==
    IF lo > hi THEN sts
    ELSE IF lo = hi
    THEN UNION { MaxiStep(moves[lo], move_, depth, st) : st \in sts }
    ELSE UNION { MaxiLoop(moves, (lo + hi) \div 2 + 1, hi, move_, depth, done)
                  : done \in {MaxiLoop(moves, lo, (lo + hi) \div 2, move_, depth, sts)} }

\* The loop of _mini with the pruning test moved before the unmaking of the
\* move (a variant that SearchRestoresPosition must tell apart from the code)
MiniStep_breaks_before_unmake(move, move_, depth, st) ==
    IF st.stop THEN {st}
    ELSE UNION { UNION {
              { [best |-> IF replace THEN [score |-> r.score, move |-> move]
                          ELSE st.best,
                 alpha |-> st.alpha,
                 beta |-> Min2(st.beta, r.score),
                 cb |-> IF Cutoff(st.alpha, Min2(st.beta, r.score))
                        THEN r.cb ELSE unmake_move(r.cb, move),
                 bot |-> r.bot,
                 stop |-> Cutoff(st.alpha, Min2(st.beta, r.score))]
                : replace \in MiniReplaces(r.bot, r.score, st.best.score) }
              : r \in _maxi(made, counted, move_, st.alpha, st.beta, depth - 1) }
           : made \in {make_move(st.cb, move)},
             counted \in {[st.bot EXCEPT !.count_states = @ + 1]} }

\* One iteration of the loop of _mini
MiniStep(move, move_, depth, st) ==
    IF st.stop THEN {st}
    ELSE UNION { UNION {
              { [best |-> IF replace THEN [score |-> r.score, move |-> move]
                          ELSE st.best,
                 alpha |-> st.alpha,
                 beta |-> Min2(st.beta, r.score),
                 cb |-> unmake_move(r.cb, move),
                 bot |-> r.bot,
                 stop |-> Cutoff(st.alpha, Min2(st.beta, r.score))]
                : replace \in MiniReplaces(r.bot, r.score, st.best.score) }
              : r \in _maxi(made, counted, move_, st.alpha, st.beta, depth - 1) }
           : made \in {make_move(st.cb, move)},
             counted \in {[st.bot EXCEPT !.count_states = @ + 1]} }

MiniLoop(moves, lo, hi, move_, depth, sts) ==
    IF lo > hi THEN sts
    ELSE IF lo = hi
    THEN UNION { MiniStep(moves[lo], move_, depth, st) : st \in sts }
    ELSE UNION { MiniLoop(moves, (lo + hi) \div 2 + 1, hi, move_, depth, done)
                  : done \in {MiniLoop(moves, lo, (lo + hi) \div 2, move_, depth, sts)} }

\* ChessBot._maxi
_maxi(cb, bot, move_, alpha, beta, depth) ==
    IF depth = 0
    THEN {[score |-> _evaluate(bot, cb), move |-> move_, cb |-> cb, bot |-> bot]}
    ELSE IF bot.random_moves > 0
    THEN LET moves == get_all_moves(cb, bot.colour)
         IN { [score |-> 0, move |-> moves[k], cb |-> cb,
               bot |-> [bot EXCEPT !.random_moves = @ - 1]] : k \in 1..Len(moves) }
    ELSE UNION {
         { [score |-> st.best.score, move |-> st.best.move, cb |-> st.cb, bot |-> st.bot]
           : st \in MaxiLoop(moves, 1, Len(moves), move_, depth,
                             {[best |-> [score |-> NegInf, move |-> None],
                               alpha |-> alpha, beta |-> beta,
                               cb |-> cb, bot |-> bot, stop |-> FALSE]}) }
         : moves \in {_get_ordered_moves(cb, bot.colour)} }

\* ChessBot._mini
_mini(cb, bot, move_, alpha, beta, depth) ==
    IF depth = 0
    THEN {[score |-> _evaluate(bot, cb), move |-> move_, cb |-> cb, bot |-> bot]}
    ELSE UNION {
         { [score |-> st.best.score, move |-> st.best.move, cb |-> st.cb, bot |-> st.bot]
           : st \in MiniLoop(moves, 1, Len(moves), move_, depth,
                             {[best |-> [score |-> PosInf, move |-> None],
                               alpha |-> alpha, beta |-> beta,
                               cb |-> cb, bot |-> bot, stop |-> FALSE]}) }
         : moves \in {_get_ordered_moves(cb, OpponentColour(bot))} }

\* get_move without the reset of the counter (a variant that CallStartsFresh
\* must tell apart from the code)
get_move_keeps_counter(cb, bot, last_move_, depth) ==
    _maxi(cb, bot, last_move_, NegInf, PosInf, depth)

\* ChessBot.get_move: the outcomes of self._maxi(board_, last_move_, -inf, inf,
\* depth) after the counter is reset
get_move(cb, bot, last_move_, depth) ==
    _maxi(cb, [bot EXCEPT !.count_states = 0], last_move_, NegInf, PosInf, depth)

(***************************************************************************)
(* The state machine                                                       *)
(***************************************************************************)
\* The longest sequence of moves made and not undone
MaxPlies == 2

\* The most pieces on a board that moves are made on; larger positions are
\* parsed and queried only
MaxPieces == 6

\* In a game against the bot: the longest sequence of moves made before the
\* bot is asked, and the furthest the bot looks ahead of the parsed position
\* (moves made plus search depth)
MaxBotPlies == 1

MaxHorizon == 3

\* The largest argument given to set_random_moves
MaxRandomMoves == 1

\* The positions the games against the bot start from
BotFenInputs == {CornerFen, HangingFen, StalemateFen, CheckFen}

VARIABLES
    fen_string,         \* the string given to Chessboard.from_fen
    error,              \* the exception from_fen raised ("" when it returned)
    board,              \* Chessboard._board
    active_colour,      \* Chessboard._active_colour
    castling_rights,    \* Chessboard._castling_rights
    en_passant_target,  \* Chessboard._en_passant_target (-1 for None)
    halfmoves,          \* Chessboard._halfmoves
    z_table,            \* Chessboard._z_table
    stack,              \* the moves made and not yet undone, held by the callers
    history,            \* for each move of stack, the board's fields before it
    last_op,            \* the board or search operation that produced this state
    bot_colour,         \* ChessBot._colour
    random_moves,       \* ChessBot._random_moves
    random_state,       \* ChessBot._random_state, in tenths
    count_states,       \* ChessBot._count_states
    result,             \* the [score, move] the last search returned
    call,               \* the arguments of the last get_move call
    calls               \* the half-move counter and the depth of each get_move call

boardVars == <<board, active_colour, castling_rights, en_passant_target, halfmoves>>

botVars == <<bot_colour, random_moves, random_state, count_states>>

vars == <<fen_string, error, board, active_colour, castling_rights,
          en_passant_target, halfmoves, z_table, stack, history, last_op,
          bot_colour, random_moves, random_state, count_states, result, call,
          calls>>

\* The Chessboard object
Self == [board |-> board,
         active_colour |-> active_colour,
         castling_rights |-> castling_rights,
         en_passant_target |-> en_passant_target,
         halfmoves |-> halfmoves]

SetSelf(cb) ==
    /\ board' = cb.board
    /\ active_colour' = cb.active_colour
    /\ castling_rights' = cb.castling_rights
    /\ en_passant_target' = cb.en_passant_target
    /\ halfmoves' = cb.halfmoves

\* The ChessBot object
Bot == [colour |-> bot_colour,
        random_moves |-> random_moves,
        random_state |-> random_state,
        count_states |-> count_states]

SetBot(bot) ==
    /\ bot_colour' = bot.colour
    /\ random_moves' = bot.random_moves
    /\ random_state' = bot.random_state
    /\ count_states' = bot.count_states

NoResult == [score |-> 0, move |-> None]

NoCall == [cb |-> NewBoard, bot |-> NewBot(Black), last_move |-> None, depth |-> -1]

\* board = Chessboard.from_fen(f), its table the one of the seed;
\* bot = ChessBot(colour), its tie-break as constructed (random_state =
\* RandomState) or disabled (random_state = 0)
Setup(f, colour, rs, seed) ==
    LET r == from_fen(f)
    IN /\ fen_string = f
       /\ error = r.err
       /\ board = r.cb.board
       /\ active_colour = r.cb.active_colour
       /\ castling_rights = r.cb.castling_rights
       /\ en_passant_target = r.cb.en_passant_target
       /\ halfmoves = r.cb.halfmoves
       /\ z_table = init_zobrist(seed)
       /\ stack = <<>>
       /\ history = <<>>
       /\ last_op = "from_fen"
       /\ bot_colour = colour
       /\ random_moves = 0
       /\ random_state = rs
       /\ count_states = 0
       /\ result = NoResult
       /\ call = NoCall
       /\ calls = <<>>

\* A game between two players, from any position-description string
Init == \E f \in FenInputs : Setup(f, Black, RandomState, 1)

\* A game against the bot
InitBot ==
    \E f \in BotFenInputs, colour \in PieceColours, rs \in {RandomState, 0} :
        Setup(f, colour, rs, 1)

\* The caller's move = board.can_make(Move(x, y, board.at(released))), then
\* board.make_move(move) when it is not None
MakeMove(i, j) ==
    LET run == can_make_run(Self, Move(i, j, board[j], NoFlags))
    IN /\ error = ""
       /\ Len(stack) < MaxPlies
       /\ Cardinality({k \in 0..63 : board[k].Type # "Empty"}) <= MaxPieces
       /\ board[i].Type # "Empty"
       /\ run.ret # None
       /\ run.ret # IndexError
       /\ SetSelf(make_move(run.self, run.ret))
       /\ stack' = Append(stack, run.ret)
       /\ history' = Append(history, Self)
       /\ last_op' = "make_move"
       /\ result' = NoResult
       /\ call' = NoCall
       /\ UNCHANGED <<fen_string, error, z_table, botVars, calls>>

\* board.unmake_move(move), with the move last made
UnmakeMove ==
    /\ error = ""
    /\ Len(stack) > 0
    /\ SetSelf(unmake_move(Self, stack[Len(stack)]))
    /\ stack' = SubSeq(stack, 1, Len(stack) - 1)
    /\ history' = SubSeq(history, 1, Len(history) - 1)
    /\ last_op' = "unmake_move"
    /\ result' = NoResult
    /\ call' = NoCall
    /\ UNCHANGED <<fen_string, error, z_table, botVars, calls>>

\* bot.set_random_moves(moves_n)
SetRandomMoves(moves_n) ==
    /\ error = ""
    /\ random_moves' = Max2(0, moves_n)
    /\ UNCHANGED <<fen_string, error, boardVars, z_table, stack, history, last_op,
                   bot_colour, random_state, count_states, result, call, calls>>

\* bot.get_move(board, last_move, depth): one of its outcomes, or the
\* exception choice() raises on an empty move list, after _maxi has counted
\* the random move
GetMove(depth) ==
    LET last_move_ == IF stack = <<>> THEN None ELSE stack[Len(stack)]
        outcomes == get_move(Self, Bot, last_move_, depth)
    IN /\ error = ""
       /\ Len(stack) + depth <= MaxHorizon
       /\ call' = [cb |-> Self, bot |-> Bot, last_move |-> last_move_, depth |-> depth]
       /\ calls' = Append(calls, [halfmoves |-> halfmoves, depth |-> depth])
       /\ IF outcomes = {}
          THEN /\ last_op' = "get_move raised"
               /\ result' = NoResult
               /\ count_states' = 0
               /\ random_moves' = random_moves - 1
               /\ UNCHANGED <<boardVars, bot_colour, random_state>>
          ELSE \E r \in outcomes :
                 /\ last_op' = "get_move"
                 /\ result' = [score |-> r.score, move |-> r.move]
                 /\ SetSelf(r.cb)
                 /\ SetBot(r.bot)
       /\ UNCHANGED <<fen_string, error, z_table, stack, history>>

Next ==
    \/ \E i \in 0..63, j \in 0..63 : MakeMove(i, j)
    \/ UnmakeMove

Spec == Init /\ [][Next]_vars

\* The positions the games that query hash start from
HashFenInputs == {CastleFen, NoRightsFen, PinFen, EnPassantFen}

\* A game between two players on a board with any of the tables
InitHash ==
    \E f \in HashFenInputs, seed \in 1..MaxSeed : Setup(f, Black, RandomState, seed)

SpecHash == InitHash /\ [][Next]_vars

\* Each game against the bot asks it for one move, the opponent moving first
NextBot ==
    \/ \E i \in 0..63, j \in 0..63 :
         /\ call = NoCall
         /\ Len(stack) < MaxBotPlies
         /\ board[i].Colour # bot_colour
         /\ MakeMove(i, j)
    \/ call = NoCall /\ UnmakeMove
    \/ \E moves_n \in -1..MaxRandomMoves : call = NoCall /\ SetRandomMoves(moves_n)
    \/ \E depth \in 0..MaxHorizon : call = NoCall /\ GetMove(depth)

SpecBot == InitBot /\ [][NextBot]_vars

\* The most get_move calls of one game, and the largest depth they are given
MaxCalls == 2

MaxCallDepth == 2

\* A game in which the bot is asked several times, before and after a move
\* of the opponent
NextCalls ==
    \/ \E i \in 0..63, j \in 0..63 :
         /\ Len(stack) < MaxBotPlies
         /\ board[i].Colour # bot_colour
         /\ MakeMove(i, j)
    \/ \E depth \in 0..MaxCallDepth : Len(calls) < MaxCalls /\ GetMove(depth)

\* The positions the games of several calls start from
CallsFenInputs == {CornerFen, HangingFen}

InitCalls ==
    \E f \in CallsFenInputs, colour \in PieceColours : Setup(f, colour, RandomState, 1)

SpecCalls == InitCalls /\ [][NextCalls]_vars

(***************************************************************************)
(* Properties of the board                                                 *)
(***************************************************************************)
\* The moves can_make returns in a position, for the pieces of both sides
AllMoves(cb) == get_all_moves(cb, White) \o get_all_moves(cb, Black)

\* The king of a side stands on a square that a rook, queen, bishop, knight or
\* pawn of the other side could move to by its own validator
AttackedByPiece(cb, side) ==
    \E king_pos \in {IndexOf(cb.board, Piece("King", side))}, k \in 0..63 :
        /\ cb.board[k].Type \in {"Rook", "Queen", "Bishop", "Knight", "Pawn"}
        /\ cb.board[k].Colour # side
        /\ _get_validator(cb, cb.board[k].Type, k % 8, k \div 8,
                          king_pos % 8, king_pos \div 8)

\* C1: in every position reached by accepted moves from a parsed position,
\* for every move can_make returns there, make_move followed by unmake_move
\* of that move leaves the 64 squares, the four castling rights, the
\* en-passant target and the half-move counter as they were.
MakeUnmakeRestores ==
    error = "" =>
        \A moves \in {AllMoves(Self)} : \A k \in 1..Len(moves) :
            unmake_move(make_move(Self, moves[k]), moves[k]) = Self

\* A position one move into a game, reached by taking a move back, where a
\* side can castle with both rights still held: castling there changes the
\* squares and the rights, and taking it back restores the position
CastlingUndone ==
    /\ error = ""
    /\ last_op = "unmake_move"
    /\ Len(stack) > 0
    /\ \E moves \in {AllMoves(Self)} : \E k \in 1..Len(moves) :
          /\ moves[k].Flags.Castling # "None"
          /\ moves[k].Flags.LoseCastling = {KingSide, QueenSide}
          /\ make_move(Self, moves[k]).board # board
          /\ make_move(Self, moves[k]).castling_rights # castling_rights
          /\ unmake_move(make_move(Self, moves[k]), moves[k]) = Self

\* C2: in every reachable position can_make returns None for a move that the
\* validator of the piece accepts but that leaves the mover's king attacked by
\* a rook, queen, bishop, knight or pawn of the other side; and every move
\* can_make returns, once made (with the rook of a castling move relocated),
\* leaves _king_is_safe true for the mover's side.
KingSafeAfterMoves ==
    error = "" =>
        /\ \A i \in {k \in 0..63 : board[k].Type # "Empty"}, j \in 0..63 :
              \A completed \in {_force_can_make(Self, Move(i, j, board[j], NoFlags))} :
                 (/\ completed # None
                  /\ board[j].Type # "King"
                  /\ AttackedByPiece(make_move(Self, completed), board[i].Colour))
                 => can_make(Self, Move(i, j, board[j], NoFlags)) = None
        /\ \A side \in PieceColours :
              \A moves \in {get_all_moves(Self, side)} : \A k \in 1..Len(moves) :
                 _king_is_safe(make_move(Self, moves[k]), side)

\* A position with a move that the validator accepts, that would leave the
\* mover's king attacked, and that can_make rejects
PinnedMoveRejected ==
    /\ error = ""
    /\ \E i \in {k \in 0..63 : board[k].Type # "Empty"}, j \in 0..63 :
          \E completed \in {_force_can_make(Self, Move(i, j, board[j], NoFlags))} :
             /\ completed # None
             /\ board[j].Type # "King"
             /\ board[i].Type # "King"
             /\ AttackedByPiece(make_move(Self, completed), board[i].Colour)
             /\ can_make(Self, Move(i, j, board[j], NoFlags)) = None

\* C3: in every position can_make returns None for every candidate move whose
\* destination square holds a king, whatever piece moves; no move of
\* get_all_moves captures a king.
NoKingCapture ==
    error = "" =>
        /\ \A j \in {k \in 0..63 : board[k].Type = "King"} :
              \A i \in 0..63, captured \in {board[j], EmptyPiece} :
                 can_make(Self, Move(i, j, captured, NoFlags)) = None
        /\ \A moves \in {AllMoves(Self)} : \A k \in 1..Len(moves) :
              /\ moves[k].Captured.Type # "King"
              /\ board[moves[k].To].Type # "King"

\* A position where the validator of a piece accepts a move onto the other
\* side's king, and can_make rejects it
KingCaptureRejected ==
    /\ error = ""
    /\ \E i \in 0..63, j \in 0..63 :
          /\ board[j].Type = "King"
          /\ _force_can_make(Self, Move(i, j, board[j], NoFlags)) # None
          /\ can_make(Self, Move(i, j, board[j], NoFlags)) = None

\* C4: can_make returns None for a king moving two files along its rank onto
\* an empty square whenever a square between the king and the corner of that
\* side is occupied, or the castling right of that colour and side is not
\* granted, also with king and rook on their home squares.
CastlingGated ==
    error = "" =>
        \A i \in {k \in 0..63 : board[k].Type = "King"}, j \in 0..63 :
            (/\ j \div 8 = i \div 8
             /\ Abs(j - i) = 2
             /\ board[j] = EmptyPiece)
            => LET side == IF j < i THEN QueenSide ELSE KingSide
                   between == IF side = QueenSide
                              THEN {k \in 0..63 : k \div 8 = i \div 8 /\ k < i /\ k % 8 > 0}
                              ELSE {k \in 0..63 : k \div 8 = i \div 8 /\ k > i /\ k % 8 < 7}
               IN (\/ \E k \in between : board[k] # EmptyPiece
                   \/ ~castling_rights[board[i].Colour][side])
                  => can_make(Self, Move(i, j, EmptyPiece, NoFlags)) = None

\* White's king and queen's rook stand on their home squares with the squares
\* between them empty, the right was lost by an earlier move, and can_make
\* rejects castling on that side
ForfeitedCastlingRejected ==
    /\ error = ""
    /\ Len(stack) > 0
    /\ board[60] = Piece("King", White)
    /\ board[56] = Piece("Rook", White)
    /\ \A k \in 57..59 : board[k] = EmptyPiece
    /\ ~castling_rights[White][QueenSide]
    /\ history[1].castling_rights[White][QueenSide]
    /\ can_make(Self, Move(60, 58, EmptyPiece, NoFlags)) = None

(***************************************************************************)
(* Properties of the bot                                                   *)
(***************************************************************************)
\* The exhaustive minimax traversal: the tree of _maxi and _mini, its moves
\* visited in the order of _get_ordered_moves, nothing pruned, an equal score
\* never replacing the incumbent.  ExhaustiveMax and ExhaustiveMin give the
\* [score, move] of a node, MaxOver and MinOver the incumbent after the moves
\* lo..hi of a node.
RECURSIVE ExhaustiveMax(_, _, _, _)
RECURSIVE ExhaustiveMin(_, _, _, _)
RECURSIVE MaxOver(_, _, _, _, _, _, _, _)
RECURSIVE MinOver(_, _, _, _, _, _, _, _)

MaxOver(cb, colour, moves, lo, hi, move_, depth, best) ==
    IF lo > hi THEN best
    ELSE IF lo = hi
    THEN CHOOSE b \in
           { IF r.score > best.score THEN [score |-> r.score, move |-> moves[lo]]
             ELSE best
             : r \in {ExhaustiveMin(make_move(cb, moves[lo]), colour, move_, depth - 1)} }
           : TRUE
    ELSE CHOOSE b \in
           { MaxOver(cb, colour, moves, (lo + hi) \div 2 + 1, hi, move_, depth, done)
             : done \in {MaxOver(cb, colour, moves, lo, (lo + hi) \div 2, move_, depth, best)} }
           : TRUE

MinOver(cb, colour, moves, lo, hi, move_, depth, best) ==
    IF lo > hi THEN best
    ELSE IF lo = hi
    THEN CHOOSE b \in
           { IF r.score < best.score THEN [score |-> r.score, move |-> moves[lo]]
             ELSE best
             : r \in {ExhaustiveMax(make_move(cb, moves[lo]), colour, move_, depth - 1)} }
           : TRUE
    ELSE CHOOSE b \in
           { MinOver(cb, colour, moves, (lo + hi) \div 2 + 1, hi, move_, depth, done)
             : done \in {MinOver(cb, colour, moves, lo, (lo + hi) \div 2, move_, depth, best)} }
           : TRUE

ExhaustiveMax(cb, colour, move_, depth) ==
    IF depth = 0
    THEN [score |-> EvaluateRange(colour, cb.board, 0, 63), move |-> move_]
    ELSE CHOOSE b \in
           { MaxOver(cb, colour, moves, 1, Len(moves), move_, depth,
                     [score |-> NegInf, move |-> None])
             : moves \in {_get_ordered_moves(cb, colour)} }
           : TRUE

ExhaustiveMin(cb, colour, move_, depth) ==
    IF depth = 0
    THEN [score |-> EvaluateRange(colour, cb.board, 0, 63), move |-> move_]
    ELSE CHOOSE b \in
           { MinOver(cb, colour, moves, 1, Len(moves), move_, depth,
                     [score |-> PosInf, move |-> None])
             : moves \in {_get_ordered_moves(cb, IF colour = Black THEN White ELSE Black)} }
           : TRUE

\* The number of positions the exhaustive traversal evaluates below a node
\* where mover is to move
RECURSIVE TreeSize(_, _, _)
RECURSIVE TreeSizeOver(_, _, _, _, _, _)
TreeSizeOver(cb, mover, moves, lo, hi, depth) ==
    IF lo > hi THEN 0
    ELSE IF lo = hi
    THEN 1 + TreeSize(make_move(cb, moves[lo]),
                      IF mover = Black THEN White ELSE Black, depth - 1)
    ELSE TreeSizeOver(cb, mover, moves, lo, (lo + hi) \div 2, depth)
         + TreeSizeOver(cb, mover, moves, (lo + hi) \div 2 + 1, hi, depth)

TreeSize(cb, mover, depth) ==
    IF depth = 0 THEN 0
    ELSE CHOOSE n \in
           { TreeSizeOver(cb, mover, moves, 1, Len(moves), depth)
             : moves \in {get_all_moves(cb, mover)} }
           : TRUE

\* C5: with the tie-break disabled (random_state = 0, so that an equal score
\* never replaces the incumbent) and no random moves pending, for every
\* position and every depth >= 1 the (score, move) that get_move's alpha-beta
\* search returns from the window (-inf, +inf) is the (score, move) of the
\* exhaustive minimax traversal of the same tree.
AlphaBetaIsMinimax ==
    (/\ last_op = "get_move"
     /\ call.bot.random_state = 0
     /\ call.bot.random_moves = 0
     /\ call.depth >= 1)
    => result = ExhaustiveMax(call.cb, call.bot.colour, call.last_move, call.depth)

\* A search of depth 3 with the tie-break disabled that returned a move with
\* a finite score after evaluating fewer positions than the exhaustive
\* traversal: branches were pruned
PrunedSearchAgrees ==
    /\ last_op = "get_move"
    /\ call.bot.random_state = 0
    /\ call.bot.random_moves = 0
    /\ call.depth = 3
    /\ result.move # None
    /\ result.score \notin {NegInf, PosInf}
    /\ count_states < TreeSize(call.cb, call.bot.colour, call.depth)
    /\ result = ExhaustiveMax(call.cb, call.bot.colour, call.last_move, call.depth)

\* The exhaustive minimax score of each root move, in the order of
\* _get_ordered_moves
RootScores(cb, colour, move_, depth) ==
    CHOOSE scores \in
      { [k \in 1..Len(moves) |->
            ExhaustiveMin(make_move(cb, moves[k]), colour, move_, depth - 1).score]
        : moves \in {_get_ordered_moves(cb, colour)} }
      : TRUE

\* The root moves whose exhaustive minimax score is the best one
BestRootMoves(cb, colour, move_, depth) ==
    CHOOSE best \in
      { { moves[k] : k \in {n \in 1..Len(moves) :
                              \A o \in 1..Len(moves) : scores[o] <= scores[n]} }
        : moves \in {_get_ordered_moves(cb, colour)},
          scores \in {RootScores(cb, colour, move_, depth)} }
      : TRUE

\* C6: when exactly one root move has the best exhaustive minimax score at
\* the depth searched (every other root move scores strictly worse), get_move
\* returns that move, whatever the outcomes of the tie-break draws.  Stated
\* for a best score above -inf: a search whose root moves all score -inf is
\* the case of C7.
UniqueBestReturned ==
    (/\ last_op = "get_move"
     /\ call.bot.random_moves = 0
     /\ call.depth >= 1)
    => \A best \in {BestRootMoves(call.cb, call.bot.colour, call.last_move, call.depth)},
          scores \in {RootScores(call.cb, call.bot.colour, call.last_move, call.depth)} :
          (/\ Cardinality(best) = 1
           /\ \E k \in 1..Len(scores) : scores[k] > NegInf)
          => result.move \in best

\* C7: get_move fails only when the bot's side has no legal move: when
\* get_all_moves(bot side) is not empty and depth >= 1, get_move raises
\* nothing and returns a move, never None, that is one of get_all_moves(bot
\* side) of the position passed in, whatever the outcomes of the tie-break
\* draws, also when every root move scores -inf.
GetMoveReturnsLegalMove ==
    \A moves \in {get_all_moves(call.cb, call.bot.colour)} :
        (/\ last_op \in {"get_move", "get_move raised"}
         /\ call.depth >= 1
         /\ moves # <<>>)
        => /\ last_op = "get_move"
           /\ result.move # None
           /\ \E k \in 1..Len(moves) : moves[k] = result.move

(***************************************************************************)
(* Properties of the parser and of the positions of __main__.py            *)
(***************************************************************************)
\* The pieces of the first rank of a side, from file a to file h
BackRank == <<"Rook", "Knight", "Bishop", "Queen", "King", "Bishop", "Knight", "Rook">>

\* The 16 White and 16 Black pieces on their standard squares
StandardBoard ==
    [i \in 0..63 |->
        IF i < 8 THEN Piece(BackRank[i + 1], Black)
        ELSE IF i < 16 THEN Piece("Pawn", Black)
        ELSE IF i >= 56 THEN Piece(BackRank[i - 55], White)
        ELSE IF i >= 48 THEN Piece("Pawn", White)
        ELSE EmptyPiece]

AllRights == [White |-> [KingSide |-> TRUE, QueenSide |-> TRUE],
              Black |-> [KingSide |-> TRUE, QueenSide |-> TRUE]]

\* C8: parsing the starting position string gives 16 White and 16 Black
\* pieces on their standard squares, White to move, all four castling rights
\* true, no en-passant target and half-move clock 0.
StartFenParsed ==
    (fen_string = StartFen /\ last_op = "from_fen")
    => /\ error = ""
       /\ board = StandardBoard
       /\ active_colour = White
       /\ castling_rights = AllRights
       /\ en_passant_target = -1
       /\ halfmoves = 0

\* The starting position string parsed: everything as C8 states, except the
\* half-move clock, which holds the sixth field of the string
StartFenClockIsOne ==
    /\ fen_string = StartFen
    /\ last_op = "from_fen"
    /\ error = ""
    /\ board = StandardBoard
    /\ active_colour = White
    /\ castling_rights = AllRights
    /\ en_passant_target = -1
    /\ halfmoves = 1

\* The number of squares each rank of a piece-placement field describes: the
\* ranks are the texts between the "/" separators, a digit describes that
\* many squares and any other character one
RECURSIVE RankWidths(_, _, _)
RankWidths(field, k, width) ==
    IF k > Len(field) THEN <<width>>
    ELSE IF field[k] = "/" THEN <<width>> \o RankWidths(field, k + 1, 0)
    ELSE RankWidths(field, k + 1,
                    width + (IF IsDigit(field[k]) THEN DigitVal(field[k]) ELSE 1))

\* Some rank of the placement field of the string describes fewer or more
\* than 8 squares
UnevenRanks(fen) ==
    \E field \in {Split(fen)[1]} : \E widths \in {RankWidths(field, 1, 0)} :
        \E r \in 1..Len(widths) : widths[r] # 8

\* The placement field of the string has a letter other than p n b r q k in
\* either case
UnknownLetter(fen) ==
    \E field \in {Split(fen)[1]} : \E k \in 1..Len(field) :
        /\ field[k] # "/"
        /\ ~IsDigit(field[k])
        /\ field[k] \notin {"p", "n", "b", "r", "q", "k", "P", "N", "B", "R", "Q", "K"}

\* C9: from_fen fails with an error, and returns no board, for every string
\* whose piece-placement field has a rank that describes fewer or more than
\* 8 squares (a rank of 16 squares, or uneven ranks that total 64, included)
\* or a letter that is not one of p n b r q k in either case.
BadPlacementRejected ==
    (UnevenRanks(fen_string) \/ UnknownLetter(fen_string)) => error # ""

\* A string with a rank of 7 squares, a rank of 9 squares or an unknown letter
\* that from_fen rejected with ValueError
ShortRankRejected ==
    /\ fen_string \in {ShortRankFen, LongRankFen, BadLetterFen}
    /\ UnevenRanks(fen_string) \/ UnknownLetter(fen_string)
    /\ error = "ValueError"

\* C10 (as stated): in the position parsed from the checkmate string of
\* __main__.py, get_all_moves(White) is empty and holds no move that leaves
\* the White king attacked.
CheckmateFenNoWhiteMoves ==
    (fen_string = CheckmateFen /\ error = "" /\ stack = <<>>)
    => \A moves \in {get_all_moves(Self, White)} :
          /\ moves = <<>>
          /\ \A k \in 1..Len(moves) :
                /\ _king_is_safe(make_move(Self, moves[k]), White)
                /\ ~AttackedByPiece(make_move(Self, moves[k]), White)

\* C10 (amended): in the position parsed from the checkmate string of
\* __main__.py, get_all_moves(White) is not empty (White's king is attacked
\* by no piece and the queen's move from f3 to f7 is among the moves), and
\* none of its moves leaves the White king attacked.
CheckmateFenWhiteMoves ==
    (fen_string = CheckmateFen /\ error = "" /\ stack = <<>>)
    => \A moves \in {get_all_moves(Self, White)} :
          /\ moves # <<>>
          /\ ~AttackedByPiece(Self, White)
          /\ \E k \in 1..Len(moves) : moves[k].From = 45 /\ moves[k].To = 13
          /\ \A k \in 1..Len(moves) :
                /\ _king_is_safe(make_move(Self, moves[k]), White)
                /\ ~AttackedByPiece(make_move(Self, moves[k]), White)

\* The checkmate string parsed, with White's queen on f3 and 35 moves in
\* get_all_moves(White)
CheckmateFenHasMoves ==
    /\ fen_string = CheckmateFen
    /\ error = ""
    /\ stack = <<>>
    /\ board[45] = Piece("Queen", White)
    /\ Len(get_all_moves(Self, White)) = 35

(***************************************************************************)
(* Properties of the position along a game                                 *)
(***************************************************************************)
\* The position the game started from, as from_fen returned it
StartOfGame == IF history = <<>> THEN Self ELSE history[1]

\* The number of kings of a colour on a board
KingCount(b, colour) ==
    Cardinality({k \in 0..63 : b[k] = Piece("King", colour)})

\* C11: in every position reached from a parsed position with exactly one
\* king per side by make_move of moves can_make returned (and unmake_move of
\* the move last made), the board holds exactly one White king and exactly
\* one Black king.
OneKingEach ==
    (/\ error = ""
     /\ \A colour \in PieceColours : KingCount(StartOfGame.board, colour) = 1)
    => \A colour \in PieceColours : KingCount(board, colour) = 1

\* Two moves into a game that started with one king per side, a capture and
\* a king's move among them, each side still has its king
KingsKeptAfterCapture ==
    /\ error = ""
    /\ Len(stack) = 2
    /\ \A colour \in PieceColours : KingCount(StartOfGame.board, colour) = 1
    /\ \E k \in 1..2 : stack[k].Captured # EmptyPiece
    /\ \E k \in 1..2 : history[k].board[stack[k].From].Type = "King"
    /\ \A colour \in PieceColours : KingCount(board, colour) = 1

\* The position after the two moves made are made in the other order from
\* the start of the game, when can_make accepts them in that order: a
\* sequence of one position, or of none
OtherOrder ==
    IF Len(stack) # 2 THEN <<>>
    ELSE LET first == can_make(history[1], Move(stack[2].From, stack[2].To,
                                                stack[2].Captured, NoFlags))
         IN IF first \in {None, IndexError} THEN <<>>
            ELSE LET mid == make_move(history[1], first)
                     second == can_make(mid, Move(stack[1].From, stack[1].To,
                                                  stack[1].Captured, NoFlags))
                 IN IF second \in {None, IndexError} THEN <<>>
                    ELSE <<make_move(mid, second)>>

\* C12: on one board object hash depends on the 64 squares only: every
\* earlier position of the game with the same squares as the current one has
\* the same hash, whatever the castling rights, en-passant target, side to
\* move and half-move counter; the two moves made give the same hash in
\* either order when they end in the same squares; and unmake_move of the
\* move last made gives back the hash of the position before it.
HashOfPlacement ==
    error = "" =>
        /\ \A k \in 1..Len(history) :
              history[k].board = board => hash(history[k], z_table) = hash(Self, z_table)
        /\ \A others \in {OtherOrder} : \A k \in 1..Len(others) :
              others[k].board = board
              => hash(others[k], z_table) = hash(Self, z_table)
        /\ Len(stack) > 0 =>
              hash(unmake_move(Self, stack[Len(stack)]), z_table)
                  = hash(history[Len(history)], z_table)

\* A king went out and came back: the squares are those of the start of the
\* game, the castling rights and the half-move counter are not, and the hash
\* is the one of the start of the game
SameSquaresSameHash ==
    /\ error = ""
    /\ Len(stack) = 2
    /\ history[1].board = board
    /\ history[1].castling_rights # castling_rights
    /\ history[1].halfmoves # halfmoves
    /\ hash(Self, z_table) # 0
    /\ hash(history[2], z_table) # hash(Self, z_table)
    /\ hash(history[1], z_table) = hash(Self, z_table)

\* The move made on a position is a pawn's push of two squares
IsDoublePush(cb, move) ==
    cb.board[move.From].Type = "Pawn" /\ Abs(move.To - move.From) = 16

\* C13: after make_move the en-passant target is the square passed over
\* when the move made was a pawn's push of two squares, and is absent after
\* any other move: a target lasts one ply, and a target read from the
\* position string is gone once the next move is made.
EnPassantOnePly ==
    (error = "" /\ last_op = "make_move")
    => en_passant_target =
          IF IsDoublePush(history[Len(history)], stack[Len(stack)])
          THEN (stack[Len(stack)].From + stack[Len(stack)].To) \div 2
          ELSE -1

\* A target read from the position string is still set two moves later, and
\* a pawn's push of two squares among the moves made has set none
StaleEnPassantTarget ==
    /\ error = ""
    /\ last_op = "make_move"
    /\ Len(stack) = 2
    /\ \/ /\ history[1].en_passant_target = 44
          /\ en_passant_target = 44
       \/ /\ IsDoublePush(history[2], stack[2])
          /\ en_passant_target = -1

\* C14: can_make leaves the board object as it found it: for every position
\* and every candidate move (any two squares, the captured piece stated as
\* the destination holds it or as none), whether a move or None is
\* returned, the 64 squares, the castling rights, the en-passant target, the
\* side to move and the half-move counter after the call are those before.
CanMakeReadOnly ==
    error = "" =>
        \A i \in 0..63, j \in 0..63 : \A captured \in {board[j], EmptyPiece} :
            can_make_run(Self, Move(i, j, captured, NoFlags)).self = Self

\* A position where can_make accepts a castling move that forfeits both
\* rights and rejects a move after making it for the king-safety test, and
\* leaves the board as it was both times
SpeculativeMoveUndone ==
    /\ error = ""
    /\ \E i \in 0..63, j \in 0..63 :
          \E run \in {can_make_run(Self, Move(i, j, board[j], NoFlags))} :
             /\ run.ret \notin {None, IndexError}
             /\ run.ret.Flags.Castling # "None"
             /\ run.ret.Flags.LoseCastling = {KingSide, QueenSide}
             /\ make_move(Self, Move(i, j, board[j], NoFlags)) # Self
             /\ run.self = Self
    /\ \E i \in 0..63, j \in 0..63 :
          \E run \in {can_make_run(Self, Move(i, j, board[j], NoFlags))} :
             /\ _force_can_make(Self, Move(i, j, board[j], NoFlags)) # None
             /\ board[j].Type # "King"
             /\ run.ret = None
             /\ run.self = Self

\* C15: whenever make_move applies a castling move can_make returned, the
\* king leaving its home square, the corner square of that side held a rook
\* of the king's colour before the move, and after it that rook stands on
\* the square the king crossed and the corner is empty.
CastlingMovesOwnRook ==
    (/\ error = ""
     /\ last_op = "make_move"
     /\ stack[Len(stack)].Flags.Castling # "None"
     /\ stack[Len(stack)].From \in {4, 60})
    => LET move == stack[Len(stack)]
           before == history[Len(history)]
           colour == board[move.To].Colour
           corner == IF move.Flags.Castling = KingSide
                     THEN move.To + 1 ELSE move.To - 2
           crossed == (move.From + move.To) \div 2
       IN /\ before.board[corner] = Piece("Rook", colour)
          /\ board[crossed] = Piece("Rook", colour)
          /\ board[corner] = EmptyPiece

\* White castled on the king's side after a Black bishop took the rook on
\* h1: the bishop was moved to f1
CastledWithBishop ==
    /\ error = ""
    /\ last_op = "make_move"
    /\ Len(stack) = 2
    /\ stack[1].Captured = Piece("Rook", White)
    /\ stack[1].To = 63
    /\ history[2].castling_rights[White][KingSide]
    /\ stack[2].Flags.Castling = KingSide
    /\ board[62] = Piece("King", White)
    /\ board[61] = Piece("Bishop", Black)

\* The home corner of the rook a side castles with
HomeCorner(colour, side) ==
    IF colour = White THEN (IF side = QueenSide THEN 56 ELSE 63)
    ELSE (IF side = QueenSide THEN 0 ELSE 7)

\* C16: a rook's move takes a castling right away only when the rook leaves
\* the home corner of its own side, and then only the right of that corner:
\* a rook's move from any other square leaves every castling right as it was.
RookForfeitsOwnCorner ==
    (/\ error = ""
     /\ last_op = "make_move"
     /\ history[Len(history)].board[stack[Len(stack)].From].Type = "Rook")
    => LET move == stack[Len(stack)]
           before == history[Len(history)]
       IN \A colour \in PieceColours, side \in {KingSide, QueenSide} :
             (before.castling_rights[colour][side] /\ ~castling_rights[colour][side])
             => /\ colour = before.board[move.From].Colour
                /\ move.From = HomeCorner(colour, side)

\* White's rook moved from a4 and the queen's-side right was taken away,
\* with the king and the rook of a1 still on their home squares
FileRookForfeitsRight ==
    /\ error = ""
    /\ last_op = "make_move"
    /\ Len(stack) = 1
    /\ stack[1].From = 32
    /\ history[1].board[32] = Piece("Rook", White)
    /\ history[1].castling_rights[White][QueenSide]
    /\ ~castling_rights[White][QueenSide]
    /\ board[56] = Piece("Rook", White)
    /\ board[60] = Piece("King", White)

\* The king of a colour can castle in a position: can_make returns a move
\* with the Castling flag for it
CanCastle(cb, colour) ==
    \E i \in {k \in 0..63 : cb.board[k] = Piece("King", colour)}, j \in 0..63 :
        \E ret \in {can_make(cb, Move(i, j, cb.board[j], NoFlags))} :
            ret \notin {None, IndexError} /\ ret.Flags.Castling # "None"

\* C17: once make_move has applied a king's move or a castling move of a
\* colour and it has not been undone, both castling rights of that colour
\* are false in every later position and can_make accepts no castling move
\* of that colour, also with the king back on its home square; and a right
\* goes from false to true only by unmake_move of a move that forfeited it.
RightsLostForGood ==
    /\ [](error = "" =>
            \A k \in 1..Len(stack) :
               history[k].board[stack[k].From].Type = "King"
               => \A colour \in {history[k].board[stack[k].From].Colour} :
                     /\ ~castling_rights[colour][KingSide]
                     /\ ~castling_rights[colour][QueenSide]
                     /\ ~CanCastle(Self, colour))
    /\ [][\A colour \in PieceColours, side \in {KingSide, QueenSide} :
             (~castling_rights[colour][side] /\ castling_rights'[colour][side])
             => /\ last_op' = "unmake_move"
                /\ side \in stack[Len(stack)].Flags.LoseCastling
                /\ colour = board[stack[Len(stack)].To].Colour]_vars

\* White's king went out and came back to e1 with both rooks at home and the
\* squares between them empty: both rights are false and can_make accepts
\* no castling move of White
KingBackHomeCannotCastle ==
    /\ error = ""
    /\ Len(stack) = 2
    /\ history[1].board[60] = Piece("King", White)
    /\ history[1].castling_rights[White][KingSide]
    /\ history[1].castling_rights[White][QueenSide]
    /\ CanCastle(history[1], White)
    /\ stack[1].From = 60
    /\ stack[2].To = 60
    /\ board = history[1].board
    /\ ~castling_rights[White][KingSide]
    /\ ~castling_rights[White][QueenSide]
    /\ ~CanCastle(Self, White)

(***************************************************************************)
(* Properties of the validators                                            *)
(***************************************************************************)
\* The pawn moves C18 lists, for the pawn on square i moving to square j
PawnRule(cb, i, j) ==
    LET x1 == i % 8
        y1 == i \div 8
        x2 == j % 8
        y2 == j \div 8
        forward == IF cb.board[i].Colour = White THEN -1 ELSE 1
        start_rank == IF cb.board[i].Colour = White THEN 6 ELSE 1
    IN \/ /\ y2 - y1 = forward
          /\ x2 = x1
          /\ cb.board[j].Type = "Empty"
       \/ /\ y2 - y1 = forward
          /\ Abs(x2 - x1) = 1
          /\ cb.board[j].Type # "Empty"
       \/ /\ y1 = start_rank
          /\ y2 - y1 = 2 * forward
          /\ x2 = x1
          /\ cb.board[j].Type = "Empty"
          /\ cb.board[(i + j) \div 2].Type = "Empty"

\* C18: _can_pawn_make accepts exactly a step of one square forward on the
\* file onto an empty square, a step of one square forward on a diagonal
\* onto an occupied square, and a push of two squares forward on the file
\* from the starting rank (6 for White, 1 for Black) with the square passed
\* over and the destination both empty; forward is rank - 1 for White and
\* rank + 1 for Black.
PawnValidatorExact ==
    error = "" =>
        \A i \in {k \in 0..63 : board[k].Type = "Pawn"}, j \in 0..63 :
            _can_pawn_make(Self, i % 8, i \div 8, j % 8, j \div 8)
                <=> PawnRule(Self, i, j)

\* A pawn on its starting rank with a piece on the square in front of it and
\* the square behind that empty: _can_pawn_make accepts the push of two
\* squares, and get_all_moves returns it
PawnJumpsOverPiece ==
    /\ error = ""
    /\ \E i \in {k \in 48..55 : board[k] = Piece("Pawn", White)} :
          /\ board[i - 8].Type # "Empty"
          /\ board[i - 16].Type = "Empty"
          /\ _can_pawn_make(Self, i % 8, i \div 8, i % 8, i \div 8 - 2)
          /\ can_make(Self, Move(i, i - 16, EmptyPiece, NoFlags))
                = Move(i, i - 16, EmptyPiece, NoFlags)

\* The first occupied square from (x, y) in the direction (dx, dy), the
\* start not counted, holds one of the pieces
FirstOnRay(cb, x, y, dx, dy, pieces) ==
    \E n \in 1..7 :
        /\ x + n * dx \in 0..7
        /\ y + n * dy \in 0..7
        /\ cb.board[(y + n * dy) * 8 + (x + n * dx)] \in pieces
        /\ \A m \in 1..(n - 1) :
              cb.board[(y + m * dy) * 8 + (x + m * dx)].Type = "Empty"

\* One of the five attacks C19 lists on the king of a colour
KingThreatened(cb, colour) ==
    \E king_pos \in {k \in 0..63 : cb.board[k] = Piece("King", colour)} :
        LET x == king_pos % 8
            y == king_pos \div 8
            enemy == IF colour = White THEN Black ELSE White
            pawn_rank == IF colour = White THEN y - 1 ELSE y + 1
        IN \/ \E d \in {<<1, 0>>, <<-1, 0>>, <<0, 1>>, <<0, -1>>} :
                FirstOnRay(cb, x, y, d[1], d[2],
                           {Piece("Rook", enemy), Piece("Queen", enemy)})
           \/ \E d \in {<<1, 1>>, <<-1, 1>>, <<1, -1>>, <<-1, -1>>} :
                FirstOnRay(cb, x, y, d[1], d[2],
                           {Piece("Bishop", enemy), Piece("Queen", enemy)})
           \/ \E k \in 0..63 :
                /\ cb.board[k] = Piece("Knight", enemy)
                /\ {Abs((k % 8) - x), Abs((k \div 8) - y)} = {1, 2}
           \/ \E k \in 0..63 :
                /\ cb.board[k] = Piece("Pawn", enemy)
                /\ k \div 8 = pawn_rank
                /\ Abs((k % 8) - x) = 1
           \/ \E k \in 0..63 :
                /\ cb.board[k] = Piece("King", enemy)
                /\ Abs((k % 8) - x) <= 1
                /\ Abs((k \div 8) - y) <= 1

\* C19: in every position with one king per side, _king_is_safe(colour) is
\* False exactly when an enemy rook or queen is first on a rank or file ray
\* from the king, an enemy bishop or queen is first on a diagonal ray, an
\* enemy knight stands a knight's move away, an enemy pawn stands on a
\* square from which it captures onto the king's square, or the enemy king
\* stands on an adjacent square; in every other position it is True.
KingSafeExact ==
    (/\ error = ""
     /\ \A colour \in PieceColours : KingCount(board, colour) = 1)
    => \A colour \in PieceColours :
          _king_is_safe(Self, colour) <=> ~KingThreatened(Self, colour)

\* The kings stand two files apart on one rank, no other attack on either:
\* _king_is_safe is False for both
KingsTwoFilesApartUnsafe ==
    /\ error = ""
    /\ \A colour \in PieceColours : KingCount(board, colour) = 1
    /\ \E white \in {IndexOf(board, Piece("King", White))},
          black \in {IndexOf(board, Piece("King", Black))} :
          /\ white \div 8 = black \div 8
          /\ Abs(white - black) = 2
    /\ \A colour \in PieceColours :
          ~KingThreatened(Self, colour) /\ ~_king_is_safe(Self, colour)

(***************************************************************************)
(* Properties of the search nodes                                          *)
(***************************************************************************)
\* C20: a node of the search at depth > 0 whose side to move has no legal
\* move returns the static evaluation of its position, a finite score: the
\* root of a get_move call when the bot has no move, and the node under a
\* root move after which the opponent has none.
NoMoveNodeEvaluated ==
    (/\ last_op = "get_move"
     /\ call.bot.random_moves = 0
     /\ call.depth >= 1)
    => /\ get_all_moves(call.cb, call.bot.colour) = <<>>
          => /\ result.score = _evaluate(call.bot, call.cb)
             /\ result.score \notin {NegInf, PosInf}
       /\ call.depth >= 2
          => \A moves \in {get_all_moves(call.cb, call.bot.colour)} :
                \A k \in 1..Len(moves) : \A made \in {make_move(call.cb, moves[k])} :
                   get_all_moves(made, OpponentColour(call.bot)) = <<>>
                   => \A r \in _mini(made, call.bot, call.last_move,
                                     NegInf, PosInf, call.depth - 1) :
                         /\ r.score = _evaluate(call.bot, made)
                         /\ r.score \notin {NegInf, PosInf}

\* A get_move call of depth >= 1 in a position where the bot has no legal
\* move and material is on the board: the score returned is -inf with no
\* move, not the evaluation
NoMoveNodeReturnsInfinity ==
    /\ last_op = "get_move"
    /\ call.bot.random_moves = 0
    /\ call.depth >= 1
    /\ get_all_moves(call.cb, call.bot.colour) = <<>>
    /\ _evaluate(call.bot, call.cb) = -9
    /\ result = [score |-> NegInf, move |-> None]

\* C21: every move the search makes is unmade before its node returns, also
\* on the iteration where beta <= alpha stops the loop: when get_move returns,
\* the squares, the castling rights, the en-passant target and the half-move
\* counter are those of the position passed in, and each node under a root
\* move returns the position its parent handed down, so that the parent's
\* next move is made on the position its move list was generated on.
SearchRestoresPosition ==
    (last_op = "get_move" /\ call.depth >= 1)
    => /\ board = call.cb.board
       /\ castling_rights = call.cb.castling_rights
       /\ en_passant_target = call.cb.en_passant_target
       /\ halfmoves = call.cb.halfmoves
       /\ active_colour = call.cb.active_colour
       /\ call.bot.random_moves = 0
          => \A moves \in {_get_ordered_moves(call.cb, call.bot.colour)} :
                \A k \in 1..Len(moves) : \A made \in {make_move(call.cb, moves[k])} :
                   \A r \in _mini(made, call.bot, call.last_move,
                                  NegInf, PosInf, call.depth - 1) :
                      r.cb = made

\* A search of depth 3 that stopped a loop on beta <= alpha (it evaluated
\* fewer positions than the whole tree holds) after at least one move was
\* made and unmade, on a board where the opponent has moved, and left the
\* position as it was passed in
PrunedSearchRestoredPosition ==
    /\ last_op = "get_move"
    /\ call.bot.random_moves = 0
    /\ call.depth >= 2
    /\ call.cb.halfmoves > 0
    /\ 0 < count_states
    /\ count_states < TreeSize(call.cb, call.bot.colour, call.depth)
    /\ Self = call.cb

(***************************************************************************)
(* Properties of the calls of get_move                                     *)
(***************************************************************************)
\* A bot that has searched nothing yet, with the settings of bot
FreshBot(bot) ==
    [NewBot(bot.colour) EXCEPT !.random_moves = bot.random_moves,
                               !.random_state = bot.random_state]

\* C22: each get_move call starts from fresh search state: the counter of
\* evaluated states is reset to 0 and nothing an earlier call stored is
\* returned, so the (score, move) a call returns and the counter it leaves,
\* also for a later call of a game, are those of the same search by a bot
\* that has searched nothing yet.
CallStartsFresh ==
    last_op = "get_move"
    => \E r \in _maxi(call.cb, FreshBot(call.bot), call.last_move,
                      NegInf, PosInf, call.depth) :
          /\ r.score = result.score
          /\ r.move = result.move
          /\ r.bot.count_states = count_states

\* The second call of a game, by a bot whose counter the first call left
\* above 0, on the position of the first call: it returned a move and its
\* counter is that of a search of its own depth
SecondCallCountsAnew ==
    /\ last_op = "get_move"
    /\ Len(calls) = 2
    /\ calls[1].halfmoves = calls[2].halfmoves
    /\ calls[1].depth = 2
    /\ call.depth = 1
    /\ call.bot.count_states > 0
    /\ result.move # None
    /\ count_states = Len(get_all_moves(call.cb, call.bot.colour))
    /\ count_states < call.bot.count_states

\* C23: the depth get_move searches to is a function of the half-move
\* counter of the position alone and never decreases as the counter grows:
\* two calls on positions of the same counter use the same depth, and a call
\* on a position of a larger counter uses a depth at least as large.
DepthFromHalfmoves ==
    \A a \in 1..Len(calls), b \in 1..Len(calls) :
        /\ calls[a].halfmoves = calls[b].halfmoves
           => calls[a].depth = calls[b].depth
        /\ calls[a].halfmoves < calls[b].halfmoves
           => calls[a].depth <= calls[b].depth

\* Two calls of one game on the same position: the first searched to depth
\* 2 and the second to depth 1, each evaluating the states of its own depth
DepthChosenByCaller ==
    /\ last_op = "get_move"
    /\ Len(calls) = 2
    /\ calls[1] = [halfmoves |-> call.cb.halfmoves, depth |-> 2]
    /\ calls[2] = [halfmoves |-> call.cb.halfmoves, depth |-> 1]
    /\ count_states = Len(get_all_moves(call.cb, call.bot.colour))
    /\ count_states < call.bot.count_states

=============================================================================
